---------------------------- MODULE Spec2Model ----------------------------
(***************************************************************************)
(* MultiMediaWorker backend: the plan validator, the tool registry, the    *)
(* planner, the command executor, the phase tracker, the media agent and   *)
(* the server's request handlers, as state machines.                       *)
(*                                                                         *)
(*   SpecValidate  PlanValidator.validate applied to bounded raw plans     *)
(*   SpecAgent     one MediaAgent.runTask: planner, executor, child        *)
(*                 processes and their timers, phase tracker               *)
(*   SpecAgentFair SpecAgent, where a killed process dies, a dead          *)
(*                 process closes and a settled step is resumed            *)
(*   SpecPlanner   OpenAIPlanner.plan: the parsed response normalised and  *)
(*                 validated                                               *)
(*   SpecServer    MediaAgentServer: one task request, concurrent revision *)
(*                 requests and the session records they write             *)
(*   SpecTracker   a TaskPhaseTracker and a caller that changes the value  *)
(*                 getPhases() returned                                    *)
(*   SpecRuns      several runTask calls in flight on one MediaAgent       *)
(***************************************************************************)
EXTENDS Integers, Sequences, FiniteSets, TLC

VARIABLES
    \* ---- OpenAIPlanner.plan(request, options) ----
    parsed,       \* JSON.parse(responseText), or that it throws
    plannerDebug, \* options.debug
    plannerOut,   \* what plan returned or threw
    \* ---- MediaAgentServer: session records and request handlers ----
    store,        \* the session record files: session id -> record
    task,         \* the call of handleTaskRequest
    revs,         \* the calls of handleRevisionRequest
    \* ---- a TaskPhaseTracker and a caller of its getPhases() ----
    tphases,      \* tracker._phases: id -> [status, error, meta, logs], by object
    theap,        \* the error objects and log entries: object -> its message
    snap,         \* the array getPhases() returned to the caller
    pristine,     \* what the tracker's methods alone have built, by value
    \* ---- runTask calls in flight on one MediaAgent ----
    trackers,     \* the TaskPhaseTracker objects made so far, in order
    runs,         \* the calls: where each is, its tracker, what it was answered
    \* ---- PlanValidator.validate(plan, outputDir) ----
    vpc,          \* "idle" | "call" | "returned" | "threw"
    definitions,  \* ToolRegistry.definitions: own key -> definition
    cwd,          \* process.cwd(), an absolute directory (segments)
    rawPlan0,     \* the plan argument as it was when validate was called
    planObj,      \* the same object now (validate assigns to its fields)
    outputDir,    \* the outputDir argument
    vError,       \* the error validate threw ("" when none)
    vIndex,       \* the step (1-based) validate was at when it threw, 0 if none
    vReturn,      \* what validate returned: "plan" is its argument plan itself
    \* ---- MediaAgent.runTask(request, options) ----
    apc,          \* "idle" | "awaitPlan" | "awaitExecute" | "returned" | "threw"
    dryRun,       \* options.dryRun
    phases,       \* tracker._phases: phase id -> [status, error, history]
    taskPlan,     \* the validated plan the planner resolved with
    outcome,      \* what runTask returned or threw
    \* ---- CommandExecutor.execute(plan, options) ----
    epc,          \* "idle" | "mkdir" | "spawned" | "describe" | "returned" | "threw"
    stepIdx,      \* the step whose child process execute awaits
    stepResults,  \* result.steps so far
    failed,       \* a step of this execution failed
    result,       \* the CommandExecutionResult execute resolved with
    execError,    \* the error execute rejected with
    fs,           \* the files that exist, by the path the plan names them with
    \* ---- CommandExecutor.spawnProcess, one call per spawned step ----
    procs         \* step -> child process, timer, closure flags, promise

pvars == <<parsed, plannerDebug, plannerOut>>
svars == <<store, task, revs>>
tvars == <<tphases, theap, snap, pristine>>
cvars == <<trackers, runs>>
xvars == <<pvars, svars, tvars, cvars>>
vvars == <<vpc, definitions, cwd, rawPlan0, planObj, outputDir, vError, vIndex, vReturn,
           xvars>>
avars == <<apc, dryRun, phases, taskPlan, outcome>>
evars == <<epc, stepIdx, stepResults, failed, result, execError, fs, procs>>
vars == <<vvars, avars, evars>>

-----------------------------------------------------------------------------
(* Bounds of the model *)

MaxSteps == 2       \* steps in a raw plan
MaxOutputs == 2     \* declared outputs in a raw plan, all steps together
MaxPlanSteps == 3   \* steps in a plan handed to the executor

-----------------------------------------------------------------------------
(* JavaScript values the validator looks at, by what the checks read *)

\* Keys every object inherits from Object.prototype: obj[key] is a truthy
\* function (or object) for each of them although key is no own property.
ObjectPrototypeKeys ==
    {"constructor", "toString", "valueOf", "hasOwnProperty", "__proto__"}

\* obj[key] for an object literal: the own property, else the inherited one.
JsGet(obj, key) ==
    IF key \in DOMAIN obj THEN "object"
    ELSE IF key \in ObjectPrototypeKeys THEN "function"
    ELSE "undefined"

\* Boolean(value)
JsBoolean(v) == v \notin {"undefined", "null"}

-----------------------------------------------------------------------------
(* ToolRegistry *)

DEFAULT_TOOL_DEFINITIONS ==
    [id \in {"ffmpeg", "magick", "exiftool", "none"} |-> [title |-> id]]

\* new ToolRegistry(extra): { ...DEFAULT_TOOL_DEFINITIONS, ...definitions }
NewToolRegistry(extra) ==
    [id \in DOMAIN DEFAULT_TOOL_DEFINITIONS \cup DOMAIN extra |->
        IF id \in DOMAIN extra THEN extra[id] ELSE DEFAULT_TOOL_DEFINITIONS[id]]

\* A registry check that looks at own keys only.
hasCommandOwnKeys(defs, command) == command \in DOMAIN defs

\* A registry that accepts any string.
hasCommandAny(defs, command) == TRUE

\* hasCommand(command): Boolean(this.definitions[command])
hasCommand(defs, command) == JsBoolean(JsGet(defs, command))

\* listCommandIds(): Object.keys(this.definitions), as a set
listCommandIds(defs) == DOMAIN defs

-----------------------------------------------------------------------------
(* node:path on POSIX.  An absolute normalised path is its sequence of     *)
(* segments; a path string is [abs, segs] before normalisation.            *)

\* Segments whose text begins with two dots.
DotDotSegments == {"..", "..b"}

RECURSIVE NormalizeSegs(_, _)
NormalizeSegs(segs, acc) ==
    IF segs = <<>> THEN acc
    ELSE LET s == Head(segs) IN
         IF s = "." THEN NormalizeSegs(Tail(segs), acc)
         ELSE IF s = ".."
              THEN NormalizeSegs(Tail(segs),
                       IF acc = <<>> THEN <<>> ELSE SubSeq(acc, 1, Len(acc) - 1))
              ELSE NormalizeSegs(Tail(segs), Append(acc, s))

\* path.resolve(p): absolute, normalised; a relative p is taken from cwd.
\* Every path string resolved here has no surrounding whitespace: output
\* paths are trimmed first, and the output directories of the model carry
\* none unless they are blank.
PathResolve(dir, p) ==
    IF p.abs THEN NormalizeSegs(p.segs, <<>>)
    ELSE NormalizeSegs(dir \o p.segs, <<>>)

RECURSIVE CommonPrefixLen(_, _)
CommonPrefixLen(a, b) ==
    IF a = <<>> \/ b = <<>> \/ Head(a) # Head(b) THEN 0
    ELSE 1 + CommonPrefixLen(Tail(a), Tail(b))

\* path.relative(from, to) for two absolute normalised paths.
PathRelative(from, to) ==
    LET c == CommonPrefixLen(from, to) IN
    [abs |-> FALSE,
     segs |-> [i \in 1..(Len(from) - c) |-> ".."] \o SubSeq(to, c + 1, Len(to))]

\* relative.startsWith('..')
StartsWithDotDot(rel) == rel.segs # <<>> /\ Head(rel.segs) \in DotDotSegments

\* path.isAbsolute(relative)
PathIsAbsolute(rel) == rel.abs

\* String.prototype.trim on a path string: surrounding whitespace is dropped.
Trim(p) == [p EXCEPT !.ws = FALSE]

\* '' (after trim): no segment and not the root.
IsEmptyString(p) == ~p.ws /\ ~p.abs /\ p.segs = <<>>

-----------------------------------------------------------------------------
(* PlanValidator *)

Ok(value) == [ok |-> TRUE, error |-> "", index |-> 0, value |-> value]
Throw(error, index) == [ok |-> FALSE, error |-> error, index |-> index, value |-> <<>>]

\* Whether the message of a thrown error has the number of the step in it:
\* "Command step (n) is invalid.", "Step (n) arguments must be ...",
\* "Step (n) outputs[k] is invalid." and "Step (n) output path is missing."
\* have it; "Unknown command: <command>" and "Output path lies outside of
\* the output directory: <path>" have not, nor have the plan's own errors.
MessageNamesStep(error) ==
    error \in {"InvalidStep", "InvalidArguments", "InvalidOutput", "OutputPathMissing"}

\* validateOutput with the containment check left out.
validateOutputNoContainment(rawOutput, stepIndex, outputIndex, normalizedOutputDir, dir) ==
    IF ~rawOutput.isObj THEN Throw("InvalidOutput", stepIndex)
    ELSE LET rawPath == IF rawOutput.pathIsStr THEN Trim(rawOutput)
                        ELSE [rawOutput EXCEPT !.ws = FALSE, !.abs = FALSE, !.segs = <<>>]
         IN
         IF IsEmptyString(rawPath) THEN Throw("OutputPathMissing", stepIndex)
         ELSE Ok([path |-> PathResolve(dir, rawPath)])

\* validateOutput(rawOutput, stepIndex, outputIndex, normalizedOutputDir);
\* dir is process.cwd(), which path.resolve reads.
validateOutput(rawOutput, stepIndex, outputIndex, normalizedOutputDir, dir) ==
    IF ~rawOutput.isObj THEN Throw("InvalidOutput", stepIndex)
    ELSE LET rawPath == IF rawOutput.pathIsStr THEN Trim(rawOutput)
                        ELSE [rawOutput EXCEPT !.ws = FALSE, !.abs = FALSE, !.segs = <<>>]
         IN
         IF IsEmptyString(rawPath) THEN Throw("OutputPathMissing", stepIndex)
         ELSE LET absolutePath == PathResolve(dir, rawPath)
                  relative == PathRelative(normalizedOutputDir, absolutePath)
              IN
              IF StartsWithDotDot(relative) \/ PathIsAbsolute(relative)
              THEN Throw("PathEscapes", stepIndex)
              ELSE Ok([path |-> absolutePath])

\* outputs.map(validateOutput): the first throw ends the map.
RECURSIVE validateOutputs(_, _, _, _, _, _)
validateOutputs(outputs, stepIndex, outputIndex, normalizedOutputDir, dir, acc) ==
    IF outputIndex > Len(outputs) THEN Ok(acc)
    ELSE LET r == validateOutput(outputs[outputIndex], stepIndex, outputIndex,
                                 normalizedOutputDir, dir)
         IN IF ~r.ok THEN r
            ELSE validateOutputs(outputs, stepIndex, outputIndex + 1,
                                 normalizedOutputDir, dir, Append(acc, r.value))

\* An element of an arguments array: a string or a number, with its text.
Str(text) == [type |-> "string", text |-> text]
Num(text) == [type |-> "number", text |-> text]

\* Array.isArray(args) && args.every((arg) => typeof arg === 'string')
IsArrayOfStrings(args) ==
    args.isArray /\ \A k \in 1..Len(args.elems) : args.elems[k].type = "string"

\* args.map(String)
MapString(args) ==
    [args EXCEPT !.isArray = TRUE,
                 !.elems = [k \in 1..Len(args.elems) |-> Str(args.elems[k].text)]]

\* validateStep turning the arguments into strings instead of rejecting them.
validateStepCoercing(defs, rawStep, index, normalizedOutputDir, dir) ==
    IF ~rawStep.isObj THEN Throw("InvalidStep", index)
    ELSE IF ~rawStep.cmdIsStr \/ ~hasCommand(defs, rawStep.command)
    THEN Throw("UnknownCommand", index)
    ELSE LET outputs == IF rawStep.outputsIsArray THEN rawStep.outputs ELSE <<>>
             r == validateOutputs(outputs, index, 1, normalizedOutputDir, dir, <<>>)
         IN IF ~r.ok THEN r
            ELSE Ok([command |-> rawStep.command,
                     arguments |-> MapString(rawStep.args),
                     outputs |-> r.value])

\* validateStep(rawStep, index, normalizedOutputDir)
validateStep(defs, rawStep, index, normalizedOutputDir, dir) ==
    IF ~rawStep.isObj THEN Throw("InvalidStep", index)
    ELSE IF ~rawStep.cmdIsStr \/ ~hasCommand(defs, rawStep.command)
    THEN Throw("UnknownCommand", index)
    ELSE IF ~IsArrayOfStrings(rawStep.args) THEN Throw("InvalidArguments", index)
    ELSE LET outputs == IF rawStep.outputsIsArray THEN rawStep.outputs ELSE <<>>
             r == validateOutputs(outputs, index, 1, normalizedOutputDir, dir, <<>>)
         IN IF ~r.ok THEN r
            ELSE Ok([command |-> rawStep.command,
                     arguments |-> rawStep.args,
                     outputs |-> r.value])

\* plan.steps.map(validateStep): the first throw ends the map.
RECURSIVE validateSteps(_, _, _, _, _, _)
validateSteps(defs, steps, index, normalizedOutputDir, dir, acc) ==
    IF index > Len(steps) THEN Ok(acc)
    ELSE LET r == validateStep(defs, steps[index], index, normalizedOutputDir, dir) IN
         IF ~r.ok THEN r
         ELSE validateSteps(defs, steps, index + 1, normalizedOutputDir, dir,
                            Append(acc, r.value))

\* validate without the check that steps is not empty.
validateAllowsEmpty(defs, plan, dirArg, dir) ==
    IF ~plan.isObj THEN [r |-> Throw("InvalidPlan", 0), obj |-> plan]
    ELSE IF ~dirArg.isStr \/ IsEmptyString(Trim(dirArg))
    THEN [r |-> Throw("NoOutputDir", 0), obj |-> plan]
    ELSE IF ~plan.stepsIsArray
    THEN [r |-> Throw("StepsMissing", 0), obj |-> plan]
    ELSE LET touched == [plan EXCEPT !.followUpIsStr = TRUE, !.overviewIsStr = TRUE]
             normalizedOutputDir == PathResolve(dir, dirArg)
             r == validateSteps(defs, plan.steps, 1, normalizedOutputDir, dir, <<>>)
         IN IF ~r.ok THEN [r |-> r, obj |-> touched]
            ELSE [r |-> Ok("plan"), obj |-> [touched EXCEPT !.steps = r.value]]

\* validate(plan, outputDir): the result, and the plan object as validate
\* leaves it (it assigns followUp, overview and steps on the object it got).
validate(defs, plan, dirArg, dir) ==
    IF ~plan.isObj THEN [r |-> Throw("InvalidPlan", 0), obj |-> plan]
    ELSE IF ~dirArg.isStr \/ IsEmptyString(Trim(dirArg))
    THEN [r |-> Throw("NoOutputDir", 0), obj |-> plan]
    ELSE IF ~plan.stepsIsArray \/ Len(plan.steps) = 0
    THEN [r |-> Throw("StepsMissing", 0), obj |-> plan]
    ELSE LET touched == [plan EXCEPT !.followUpIsStr = TRUE, !.overviewIsStr = TRUE]
             normalizedOutputDir == PathResolve(dir, dirArg)
             r == validateSteps(defs, plan.steps, 1, normalizedOutputDir, dir, <<>>)
         IN IF ~r.ok THEN [r |-> r, obj |-> touched]
            ELSE [r |-> Ok("plan"), obj |-> [touched EXCEPT !.steps = r.value]]

-----------------------------------------------------------------------------
Min(S) == CHOOSE x \in S : \A y \in S : x <= y
Max(S) == CHOOSE x \in S : \A y \in S : x >= y

-----------------------------------------------------------------------------
(* The validator at rest, for the specifications that do not call it *)

\* No call of OpenAIPlanner.plan.
PlannerIdle ==
    /\ parsed = <<>>
    /\ plannerDebug = FALSE
    /\ plannerOut = [kind |-> "none"]

\* No request at the server.
ServerIdle ==
    /\ store = <<>>
    /\ task = [pc |-> "idle"]
    /\ revs = <<>>

\* No tracker handed to a caller.
TrackerIdle ==
    /\ tphases = <<>>
    /\ theap = <<>>
    /\ snap = <<>>
    /\ pristine = <<>>

\* No runTask call in flight.
RunsIdle ==
    /\ trackers = <<>>
    /\ runs = <<>>

\* The state of the parts a specification does not run.
ExtrasIdle == PlannerIdle /\ ServerIdle /\ TrackerIdle /\ RunsIdle

ValidatorIdle ==
    /\ ExtrasIdle
    /\ vpc = "idle"
    /\ definitions = NewToolRegistry(<<>>)
    /\ cwd = <<>>
    /\ rawPlan0 = <<>>
    /\ planObj = <<>>
    /\ outputDir = <<>>
    /\ vError = ""
    /\ vIndex = 0
    /\ vReturn = "none"

-----------------------------------------------------------------------------
(* Errors and exit codes *)

\* An error message: its fixed text and the command and exit code it names.
Msg(text, command, code) == [text |-> text, command |-> command, code |-> code]

Error(name, message) == [name |-> name, message |-> message]

NoError == Error("", Msg("", "", ""))

\* What the planner rejects with, and what spawn reports for a missing tool.
\* The error planner.plan rejects with, and the rawPlan, debug and
\* responseText attached to it ("undefined" when not attached).
PlannerError(rawPlan, debug, responseText) ==
    [name |-> "Error", message |-> Msg("planner failed", "", ""),
     rawPlan |-> rawPlan, debug |-> debug, responseText |-> responseText]

\* The errors of the planner: one thrown before the plan is validated
\* (nothing attached), and a validation error without and with debug.
PlannerErrors ==
    { PlannerError("undefined", "undefined", "undefined"),
      PlannerError("normalized", "undefined", "responseText"),
      PlannerError("normalized", "debug", "responseText") }

\* value ?? null
OrNull(value) == IF value \in {"undefined", "null"} THEN "null" ELSE value

\* The context of a MediaAgentTaskError, by key ("absent": no such key).
NoContext ==
    [plan |-> "absent", rawPlan |-> "absent", debug |-> "absent",
     responseText |-> "absent", result |-> "absent"]
SpawnError == Error("Error", Msg("spawn ENOENT", "", ""))

\* Exit codes a process ends with; "null" when a signal ended it; "-2" is
\* the code of the close event of a process that could not be spawned.
ExitCodes == {"0", "1"}

\* typeof code === 'number'
IsNumber(code) == code # "null"

-----------------------------------------------------------------------------
(* TaskPhaseTracker *)

PhaseIds == {"plan", "execute", "summarize"}

\* new TaskPhaseTracker(): every phase pending, no error.  The field
\* history lists every value the phase's status has been assigned, first
\* to last; the code keeps only the last one, in status.
NewTaskPhaseTracker ==
    [id \in PhaseIds |->
        [status |-> "pending", error |-> NoError, history |-> <<"pending">>]]

\* start(phaseId)
TrackerStart(ph, id) ==
    IF id \in DOMAIN ph
    THEN [ph EXCEPT ![id].status = "in_progress",
                    ![id].history = Append(@, "in_progress")]
    ELSE ph

\* complete(phaseId)
TrackerComplete(ph, id) ==
    IF id \in DOMAIN ph
    THEN [ph EXCEPT ![id].status = "success",
                    ![id].history = Append(@, "success")]
    ELSE ph

\* fail(phaseId, error)
TrackerFail(ph, id, error) ==
    IF id \in DOMAIN ph
    THEN [ph EXCEPT ![id].status = "failed",
                    ![id].history = Append(@, "failed"),
                    ![id].error = Error(error.name, error.message)]
    ELSE ph

\* getPhases()
TrackerGetPhases(ph) == [id \in DOMAIN ph |-> ph[id]]

-----------------------------------------------------------------------------
(* CommandExecutor.spawnProcess: the child process, the timeout timer, the  *)
(* closure variables timedOut and finished, and the promise it returns     *)

NoValue == [exitCode |-> "null", timedOut |-> FALSE]

NoProc ==
    [child |-> "none",          \* "none" | "running" | "exited" | "closed"
     code |-> "null",           \* the code the process ended with
     signalled |-> FALSE,       \* child.kill() reached the running process
     errorPending |-> FALSE,    \* an 'error' event is queued
     timer |-> "none",          \* "none" | "armed" | "fired" | "cleared"
     timedOut |-> FALSE,
     finished |-> FALSE,
     promise |-> "none",        \* "none" | "pending" | "resolved" | "rejected"
     settles |-> 0,             \* calls of resolve and reject so far
     value |-> NoValue]

\* spawnProcess returning a promise that is already resolved.
SpawnProcessNoWait(started) ==
    [NoProc EXCEPT !.child = IF started THEN "running" ELSE "exited",
                   !.code = IF started THEN "null" ELSE "-2",
                   !.timer = "armed",
                   !.finished = TRUE,
                   !.promise = "resolved",
                   !.settles = 1,
                   !.value = [exitCode |-> "0", timedOut |-> FALSE]]

\* spawn(command, args, ...) and setTimeout(..., this.timeoutMs).  A tool
\* that cannot be started gives a child that emits 'error' and then 'close'.
SpawnProcess(started) ==
    [NoProc EXCEPT !.child = IF started THEN "running" ELSE "exited",
                   !.code = IF started THEN "null" ELSE "-2",
                   !.errorPending = ~started,
                   !.timer = "armed",
                   !.promise = "pending"]

\* clearTimeout(timeoutId)
ClearTimeout(timer) == IF timer = "armed" THEN "cleared" ELSE timer

\* The timeout callback without child.kill().
TimeoutCallbackNoKill(p) == [p EXCEPT !.timer = "fired", !.timedOut = TRUE]

\* The timeout callback: timedOut = true; child.kill()
TimeoutCallback(p) ==
    [p EXCEPT !.timer = "fired",
              !.timedOut = TRUE,
              !.signalled = p.signalled \/ p.child = "running"]

\* child.on('error', ...)
OnError(p) ==
    IF ~p.finished
    THEN [p EXCEPT !.finished = TRUE,
                   !.timer = ClearTimeout(p.timer),
                   !.settles = p.settles + 1,
                   !.promise = "rejected"]
    ELSE p

\* The close handler reporting the process's code whatever timedOut is.
OnCloseKeepsCode(p, code) ==
    IF ~p.finished
    THEN [p EXCEPT !.finished = TRUE,
                   !.timer = ClearTimeout(p.timer),
                   !.settles = p.settles + 1,
                   !.promise = "resolved",
                   !.value = [exitCode |-> code, timedOut |-> FALSE]]
    ELSE p

\* The close handler without the finished flag: it clears the timer and
\* resolves whatever happened before.
OnCloseNoGuard(p, code) ==
    [p EXCEPT !.finished = TRUE,
              !.timer = ClearTimeout(p.timer),
              !.settles = p.settles + 1,
              !.promise = "resolved",
              !.value = [exitCode |-> IF p.timedOut THEN "null" ELSE code,
                         timedOut |-> p.timedOut]]

\* child.on('close', (code) => ...)
OnClose(p, code) ==
    IF ~p.finished
    THEN [p EXCEPT !.finished = TRUE,
                   !.timer = ClearTimeout(p.timer),
                   !.settles = p.settles + 1,
                   !.promise = "resolved",
                   !.value = [exitCode |-> IF p.timedOut THEN "null" ELSE code,
                              timedOut |-> p.timedOut]]
    ELSE p

-----------------------------------------------------------------------------
(* CommandExecutor.execute over the steps of a plan *)

NoResult ==
    [exitCode |-> "null", timedOut |-> FALSE, stdout |-> <<>>, steps |-> <<>>,
     resolvedOutputs |-> <<>>]

\* describeOutputs that leaves out the files that do not exist.
RECURSIVE describeOutputsOnlyExisting(_, _)
describeOutputsOnlyExisting(outputs, files) ==
    IF outputs = <<>> THEN <<>>
    ELSE (IF Head(outputs) \in files
          THEN <<[path |-> Head(outputs), exists |-> TRUE]>> ELSE <<>>)
         \o describeOutputsOnlyExisting(Tail(outputs), files)

\* describeOutputs(outputs, publicRoot): one entry per output, with
\* existsSync of its path.
describeOutputs(outputs, files) ==
    [k \in 1..Len(outputs) |-> [path |-> outputs[k], exists |-> outputs[k] \in files]]

\* The outputs the steps of a plan declare, in plan order.
RECURSIVE DeclaredOutputs(_)
DeclaredOutputs(steps) ==
    IF steps = <<>> THEN <<>> ELSE Head(steps).outputs \o DeclaredOutputs(Tail(steps))

\* A step failed: it timed out or exited with a non-zero code.
StepFailed(r) ==
    r.status = "executed" /\ (r.timedOut \/ (IsNumber(r.exitCode) /\ r.exitCode # "0"))

\* A skip rule that spawns the steps of a dry run.
SkipReasonIgnoresDryRun(step, hasFailed, dry) ==
    IF hasFailed THEN "previous_step_failed"
    ELSE IF step.command = "none" THEN "no_op_command"
    ELSE ""

\* Why a step is not spawned; "" when it is to be spawned.
SkipReason(step, hasFailed, dry) ==
    IF hasFailed THEN "previous_step_failed"
    ELSE IF dry THEN "dry_run"
    ELSE IF step.command = "none" THEN "no_op_command"
    ELSE ""

Skipped(step, reason) ==
    [status |-> "skipped", command |-> step.command, exitCode |-> "null",
     timedOut |-> FALSE, skipReason |-> reason]

Executed(step, value) ==
    [status |-> "executed", command |-> step.command, exitCode |-> value.exitCode,
     timedOut |-> value.timedOut, skipReason |-> ""]

\* A loop that stops at the first failure instead of recording the
\* remaining steps.
RECURSIVE SkipFromBreaks(_, _, _, _, _)
SkipFromBreaks(steps, k, results, hasFailed, dry) ==
    IF k > Len(steps) \/ hasFailed THEN [results |-> results, next |-> Len(steps) + 1]
    ELSE LET reason == SkipReason(steps[k], hasFailed, dry) IN
         IF reason = "" THEN [results |-> results, next |-> k]
         ELSE SkipFromBreaks(steps, k + 1, Append(results, Skipped(steps[k], reason)),
                             hasFailed, dry)

\* The loop over the steps from step k on, up to the next step to spawn:
\* the results with the skipped steps recorded, and that step (Len + 1 when
\* the loop is over).
RECURSIVE SkipFrom(_, _, _, _, _)
SkipFrom(steps, k, results, hasFailed, dry) ==
    IF k > Len(steps) THEN [results |-> results, next |-> k]
    ELSE LET reason == SkipReason(steps[k], hasFailed, dry) IN
         IF reason = "" THEN [results |-> results, next |-> k]
         ELSE SkipFrom(steps, k + 1, Append(results, Skipped(steps[k], reason)),
                       hasFailed, dry)

\* result.exitCode: the exit code of the first failed step, else 0 when a
\* step was executed, else null.
AggregateExitCode(results) ==
    LET failing == {i \in 1..Len(results) : StepFailed(results[i])}
        executed == {i \in 1..Len(results) : results[i].status = "executed"}
    IN IF failing # {} THEN results[Min(failing)].exitCode
       ELSE IF executed # {} THEN "0"
       ELSE "null"

\* result.stdout, result.stderr: one labelled block per executed step.
RECURSIVE AggregateOutput(_, _)
AggregateOutput(results, i) ==
    IF i > Len(results) THEN <<>>
    ELSE (IF results[i].status = "executed" THEN <<i>> ELSE <<>>)
         \o AggregateOutput(results, i + 1)

\* The CommandExecutionResult of the recorded steps.
BuildResult(results) ==
    [exitCode |-> AggregateExitCode(results),
     timedOut |-> \E i \in 1..Len(results) : results[i].timedOut,
     stdout |-> AggregateOutput(results, 1),
     steps |-> results,
     resolvedOutputs |-> <<>>]

\* execute runs its loop from step k until it awaits a child process or
\* the loop is over and it awaits describeOutputs.
LoopFrom(k, results, hasFailed) ==
    LET s == SkipFrom(taskPlan.steps, k, results, hasFailed, dryRun) IN
    /\ stepResults' = s.results
    /\ failed' = hasFailed
    /\ IF s.next > Len(taskPlan.steps)
       THEN /\ epc' = "describe"
            /\ UNCHANGED <<stepIdx, procs>>
       ELSE /\ epc' = "spawned"
            /\ stepIdx' = s.next
            /\ \E started \in BOOLEAN :
                  procs' = [procs EXCEPT ![s.next] = SpawnProcess(started)]

\* await this.ensureOutputDirectories(...) is over: the loop starts.
MkdirDone ==
    /\ epc = "mkdir"
    /\ LoopFrom(1, <<>>, FALSE)
    /\ UNCHANGED <<result, execError>>
    /\ UNCHANGED fs
    /\ UNCHANGED <<vvars, avars>>

\* await this.spawnProcess(...) is over.  A rejection leaves execute (no
\* try encloses the await); a value is recorded and the loop goes on.
ExecuteResumes ==
    /\ epc = "spawned"
    /\ procs[stepIdx].promise \in {"resolved", "rejected"}
    /\ IF procs[stepIdx].promise = "rejected"
       THEN /\ epc' = "threw"
            /\ execError' = SpawnError
            /\ UNCHANGED <<stepIdx, stepResults, failed, procs>>
       ELSE /\ LET r == Executed(taskPlan.steps[stepIdx], procs[stepIdx].value) IN
                 LoopFrom(stepIdx + 1, Append(stepResults, r), failed \/ StepFailed(r))
            /\ UNCHANGED execError
    /\ UNCHANGED result
    /\ UNCHANGED fs
    /\ UNCHANGED <<vvars, avars>>

\* await this.describeOutputs(...) is over: execute returns its result.
DescribeDone ==
    /\ epc = "describe"
    /\ epc' = "returned"
    /\ result' = [BuildResult(stepResults) EXCEPT
                     !.resolvedOutputs = describeOutputs(DeclaredOutputs(taskPlan.steps), fs)]
    /\ UNCHANGED <<stepIdx, stepResults, failed, execError, procs>>
    /\ UNCHANGED fs
    /\ UNCHANGED <<vvars, avars>>

-----------------------------------------------------------------------------
(* The child processes and the event loop *)

\* A running process ends on its own, or a signal from outside ends it.
ProcessExits(i) ==
    /\ procs[i].child = "running"
    /\ \E code \in ExitCodes \cup {"null"} :
          procs' = [procs EXCEPT ![i].child = "exited", ![i].code = code]
    /\ UNCHANGED <<epc, stepIdx, stepResults, failed, result, execError>>
    /\ UNCHANGED fs
    /\ UNCHANGED <<vvars, avars>>

\* The signal of child.kill() ends the running process.
ProcessDies(i) ==
    /\ procs[i].child = "running"
    /\ procs[i].signalled
    /\ procs' = [procs EXCEPT ![i].child = "exited", ![i].code = "null"]
    /\ UNCHANGED <<epc, stepIdx, stepResults, failed, result, execError>>
    /\ UNCHANGED fs
    /\ UNCHANGED <<vvars, avars>>

\* The running child of step i writes one of the outputs its step declares.
ChildWrites(i) ==
    /\ procs[i].child = "running"
    /\ \E k \in 1..Len(taskPlan.steps[i].outputs) :
          /\ taskPlan.steps[i].outputs[k] \notin fs
          /\ fs' = fs \cup {taskPlan.steps[i].outputs[k]}
    /\ UNCHANGED <<epc, stepIdx, stepResults, failed, result, execError, procs>>
    /\ UNCHANGED <<vvars, avars>>

\* The timeout timer of step i fires.
TimerFires(i) ==
    /\ procs[i].timer = "armed"
    /\ procs' = [procs EXCEPT ![i] = TimeoutCallback(procs[i])]
    /\ UNCHANGED <<epc, stepIdx, stepResults, failed, result, execError>>
    /\ UNCHANGED fs
    /\ UNCHANGED <<vvars, avars>>

\* The 'error' event of child i is delivered.
ErrorEvent(i) ==
    /\ procs[i].errorPending
    /\ procs' = [procs EXCEPT ![i] = [OnError(procs[i]) EXCEPT !.errorPending = FALSE]]
    /\ UNCHANGED <<epc, stepIdx, stepResults, failed, result, execError>>
    /\ UNCHANGED fs
    /\ UNCHANGED <<vvars, avars>>

\* The 'close' event of child i is delivered (after its 'error' event).
CloseEvent(i) ==
    /\ procs[i].child = "exited"
    /\ ~procs[i].errorPending
    /\ procs' = [procs EXCEPT ![i] = [OnClose(procs[i], procs[i].code) EXCEPT !.child = "closed"]]
    /\ UNCHANGED <<epc, stepIdx, stepResults, failed, result, execError>>
    /\ UNCHANGED fs
    /\ UNCHANGED <<vvars, avars>>

-----------------------------------------------------------------------------
(* MediaAgent.runTask *)

NoOutcome ==
    [kind |-> "none", message |-> "", cause |-> NoError, context |-> NoContext,
     phases |-> NewTaskPhaseTracker, hasResult |-> FALSE]

\* return { plan, rawPlan, result, phases, debug }
Returned(ph) ==
    [kind |-> "returned", message |-> "", cause |-> NoError, context |-> NoContext,
     phases |-> TrackerGetPhases(ph), hasResult |-> TRUE]

\* new MediaAgentTaskError(message, phases, { cause, context })
MediaAgentTaskError(message, ph, cause, context) ==
    [kind |-> "MediaAgentTaskError", message |-> message, cause |-> cause,
     context |-> context, phases |-> ph, hasResult |-> FALSE]

\* A failure check that looks at exit codes only.
hasExecutionFailureNoTimeout(res) ==
    \/ IsNumber(res.exitCode) /\ res.exitCode # "0"
    \/ \E i \in 1..Len(res.steps) :
          /\ res.steps[i].status = "executed"
          /\ IsNumber(res.steps[i].exitCode) /\ res.steps[i].exitCode # "0"

\* hasExecutionFailure(result)
hasExecutionFailure(res) ==
    \/ res.timedOut
    \/ IsNumber(res.exitCode) /\ res.exitCode # "0"
    \/ \E i \in 1..Len(res.steps) :
          /\ res.steps[i].status = "executed"
          /\ \/ res.steps[i].timedOut
             \/ IsNumber(res.steps[i].exitCode) /\ res.steps[i].exitCode # "0"

\* describeExecutionFailure(result)
describeExecutionFailure(res) ==
    LET failing == {i \in 1..Len(res.steps) :
                       /\ res.steps[i].status = "executed"
                       /\ \/ res.steps[i].timedOut
                          \/ IsNumber(res.steps[i].exitCode) /\ res.steps[i].exitCode # "0"}
    IN IF res.timedOut THEN Msg("Command execution timed out.", "", "")
       ELSE IF failing # {}
       THEN LET failedStep == res.steps[Min(failing)] IN
            IF failedStep.timedOut
            THEN Msg("Command timed out.", failedStep.command, "")
            ELSE Msg("Command exited with code", failedStep.command, failedStep.exitCode)
       ELSE IF IsNumber(res.exitCode) /\ res.exitCode # "0"
       THEN Msg("Command execution exited with code", "", res.exitCode)
       ELSE Msg("Command execution failed.", "", "")

\* A catch block of the execute phase that completes the phase after it
\* has failed it.
ExecuteCatchThenComplete(ph, error) ==
    LET ph1 == TrackerComplete(TrackerFail(ph, "execute", error), "execute") IN
    MediaAgentTaskError("Execution phase failed", TrackerGetPhases(ph1), error,
                        [NoContext EXCEPT !.plan = "plan", !.rawPlan = "rawPlan",
                                          !.debug = "undefined"])

\* The catch block of the execute phase: fail the phase with the error
\* caught and throw a MediaAgentTaskError around it.
ExecuteCatch(ph, error) ==
    LET ph1 == TrackerFail(ph, "execute", error) IN
    MediaAgentTaskError("Execution phase failed", TrackerGetPhases(ph1), error,
                        [NoContext EXCEPT !.plan = "plan", !.rawPlan = "rawPlan",
                                          !.debug = "undefined"])

\* The try block of the execute phase after the await, for a result: what
\* it throws (kind "none" when it throws nothing) and the phases it leaves.
ExecuteTry(ph, res) ==
    IF hasExecutionFailure(res)
    THEN LET failureError == Error("CommandExecutionError", describeExecutionFailure(res))
             ph1 == TrackerFail(ph, "execute", failureError)
         IN [phases |-> ph1,
             thrown |-> MediaAgentTaskError("Execution phase failed", TrackerGetPhases(ph1),
                            failureError,
                            [NoContext EXCEPT !.plan = "plan", !.rawPlan = "rawPlan",
                                              !.debug = "undefined", !.result = "result"])]
    ELSE [phases |-> TrackerComplete(ph, "execute"), thrown |-> NoOutcome]

\* The steps a plan can have at place i: a tool that writes the file named
\* i, a tool that writes no file, and a "none" step declaring the file i.
PlanStepsAt(i) ==
    { [command |-> "ffmpeg", outputs |-> <<i>>],
      [command |-> "ffmpeg", outputs |-> <<>>],
      [command |-> "none", outputs |-> <<i>>] }

\* The plans a planner resolves with: validated, 1..MaxPlanSteps steps.
ValidatedPlans ==
    UNION { {[steps |-> s] :
                s \in {t \in [1..n -> UNION {PlanStepsAt(i) : i \in 1..n}] :
                          \A i \in 1..n : t[i] \in PlanStepsAt(i)}} :
            n \in 1..MaxPlanSteps }

\* runTask is called: the tracker is made and phase plan started.
RunTaskCall ==
    /\ apc = "idle"
    /\ apc' = "awaitPlan"
    /\ dryRun' \in BOOLEAN
    /\ phases' = TrackerStart(NewTaskPhaseTracker, "plan")
    /\ UNCHANGED <<taskPlan, outcome>>
    /\ UNCHANGED <<vvars, evars>>

\* planner.plan resolved: phase plan completes, phase execute starts and
\* executor.execute is called; it runs to the await of its mkdir.
PlannerResolves ==
    /\ apc = "awaitPlan"
    /\ apc' = "awaitExecute"
    /\ taskPlan' \in ValidatedPlans
    /\ phases' = TrackerStart(TrackerComplete(phases, "plan"), "execute")
    /\ epc' = "mkdir"
    /\ UNCHANGED <<dryRun, outcome>>
    /\ UNCHANGED <<stepIdx, stepResults, failed, result, execError, fs, procs>>
    /\ UNCHANGED vvars

\* A planner failure that is logged and ignored: the run goes on with a
\* plan of one step.
PlannerRejectsGoesOn ==
    /\ apc = "awaitPlan"
    /\ apc' = "awaitExecute"
    /\ taskPlan' = [steps |-> <<[command |-> "ffmpeg", outputs |-> <<>>]>>]
    /\ \E error \in PlannerErrors :
          phases' = TrackerStart(TrackerFail(phases, "plan", error), "execute")
    /\ epc' = "mkdir"
    /\ UNCHANGED <<dryRun, outcome>>
    /\ UNCHANGED <<stepIdx, stepResults, failed, result, execError, fs, procs>>
    /\ UNCHANGED vvars

\* The catch block of the plan phase: fail the phase with the error caught
\* and throw a MediaAgentTaskError around it.
PlanCatch(ph, error) ==
    LET ph1 == TrackerFail(ph, "plan", error) IN
    MediaAgentTaskError("Plan phase failed", TrackerGetPhases(ph1), error,
                        [NoContext EXCEPT !.rawPlan = OrNull(error.rawPlan),
                                          !.debug = OrNull(error.debug),
                                          !.responseText = OrNull(error.responseText)])

\* planner.plan rejected: phase plan fails and runTask throws.
PlannerRejects ==
    /\ apc = "awaitPlan"
    /\ apc' = "threw"
    /\ \E error \in PlannerErrors :
          /\ outcome' = PlanCatch(phases, error)
          /\ phases' = outcome'.phases
    /\ UNCHANGED <<dryRun, taskPlan>>
    /\ UNCHANGED <<vvars, evars>>

\* The rest of runTask once executor.execute has settled, rejected with
\* error or resolved with res: the phases it leaves, what it returns or
\* throws, and where it ends.
AfterExecute(ph, rejected, error, res) ==
    IF rejected
    THEN LET e == ExecuteCatch(ph, error) IN
         [phases |-> e.phases, outcome |-> e, pc |-> "threw"]
    ELSE LET t == ExecuteTry(ph, res) IN
         IF t.thrown.kind # "none"
         THEN LET e == ExecuteCatch(t.phases,
                           Error(t.thrown.kind, Msg(t.thrown.message, "", "")))
              IN [phases |-> e.phases, outcome |-> e, pc |-> "threw"]
         ELSE LET ph1 == TrackerComplete(TrackerStart(t.phases, "summarize"), "summarize")
              IN [phases |-> ph1, outcome |-> Returned(ph1), pc |-> "returned"]

\* executor.execute settled: the rest of runTask.
RunTaskResumes ==
    /\ apc = "awaitExecute"
    /\ epc \in {"returned", "threw"}
    /\ LET a == AfterExecute(phases, epc = "threw", execError, result) IN
       /\ outcome' = a.outcome
       /\ phases' = a.phases
       /\ apc' = a.pc
    /\ UNCHANGED <<dryRun, taskPlan>>
    /\ UNCHANGED <<vvars, evars>>

-----------------------------------------------------------------------------
(* SpecAgent: one runTask from the call to its return or throw *)

AgentIdle ==
    /\ apc = "idle"
    /\ dryRun = FALSE
    /\ phases = NewTaskPhaseTracker
    /\ taskPlan = [steps |-> <<>>]
    /\ outcome = NoOutcome
    /\ epc = "idle"
    /\ stepIdx = 0
    /\ stepResults = <<>>
    /\ failed = FALSE
    /\ result = NoResult
    /\ execError = NoError
    /\ procs = [i \in 1..MaxPlanSteps |-> NoProc]

\* The files that exist when runTask is called: none, or every file a
\* plan can name.
InitialFiles == {{}, 1..MaxPlanSteps}

InitAgent == ValidatorIdle /\ AgentIdle /\ fs \in InitialFiles

NextAgent ==
    \/ RunTaskCall
    \/ PlannerResolves
    \/ PlannerRejects
    \/ MkdirDone
    \/ ExecuteResumes
    \/ DescribeDone
    \/ RunTaskResumes
    \/ \E i \in 1..MaxPlanSteps : ProcessExits(i)
    \/ \E i \in 1..MaxPlanSteps : ProcessDies(i)
    \/ \E i \in 1..MaxPlanSteps : ChildWrites(i)
    \/ \E i \in 1..MaxPlanSteps : TimerFires(i)
    \/ \E i \in 1..MaxPlanSteps : ErrorEvent(i)
    \/ \E i \in 1..MaxPlanSteps : CloseEvent(i)

SpecAgent == InitAgent /\ [][NextAgent]_vars

\* A process that child.kill() signalled dies, the close event of a dead
\* process is delivered, and the awaits of execute and runTask resume.
SpecAgentFair ==
    /\ SpecAgent
    /\ WF_vars(\E i \in 1..MaxPlanSteps : ProcessDies(i))
    /\ WF_vars(\E i \in 1..MaxPlanSteps : ErrorEvent(i))
    /\ WF_vars(\E i \in 1..MaxPlanSteps : CloseEvent(i))
    /\ WF_vars(ExecuteResumes)
    /\ WF_vars(DescribeDone)
    /\ WF_vars(RunTaskResumes)

-----------------------------------------------------------------------------
(* Raw plans handed to validate *)

Out(ws, abs, segs) ==
    [isObj |-> TRUE, pathIsStr |-> TRUE, ws |-> ws, abs |-> abs, segs |-> segs]

\* Output entries by the path they name.
PathOutputs ==
    { Out(FALSE, TRUE, <<"out", "a">>),            \* /out/a
      Out(TRUE, TRUE, <<"out", "a">>),             \* "  /out/a  "
      Out(FALSE, TRUE, <<"out">>),                 \* /out
      Out(FALSE, TRUE, <<"out", "..", "etc">>),    \* /out/../etc
      Out(FALSE, TRUE, <<"etc">>),                 \* /etc
      Out(FALSE, TRUE, <<"out", "a", "..", "b">>), \* /out/a/../b
      Out(FALSE, TRUE, <<"out", "..b">>),          \* /out/..b
      Out(FALSE, FALSE, <<"a">>),                  \* a
      Out(FALSE, FALSE, <<"..", "a">>),            \* ../a
      Out(TRUE, FALSE, <<>>) }                     \* "   "

\* Output entries of the wrong shape: not an object, path not a string.
BadOutputs ==
    { [isObj |-> FALSE, pathIsStr |-> FALSE, ws |-> FALSE, abs |-> FALSE, segs |-> <<>>],
      [isObj |-> TRUE, pathIsStr |-> FALSE, ws |-> FALSE, abs |-> FALSE, segs |-> <<>>] }

Step(command, args, outputs) ==
    [isObj |-> TRUE, cmdIsStr |-> TRUE, command |-> command, args |-> args,
     outputsIsArray |-> TRUE, outputs |-> outputs]

\* The arguments of a step, by kind: an array of strings, an empty array,
\* an array with a number in it, and a value that is no array.
Args(kind) ==
    [isArray |-> kind # "notArray",
     elems |-> IF kind = "strings" THEN <<Str("-i"), Str("12")>>
               ELSE IF kind = "mixed" THEN <<Str("-i"), Num("12")>>
               ELSE <<>>]

\* A step whose command and arguments pass.
GoodStep == Step("ffmpeg", Args("strings"), <<>>)

\* Steps by shape: a non-object, a non-string command, outputs that are no
\* array, one escaping output, and every command string with arguments that
\* are strings, mixed or no array.
CommandStrings == {"ffmpeg", "none", "rm", "constructor"}
ArgumentKinds == {"strings", "empty", "mixed", "notArray"}
ShapeSteps ==
    { [GoodStep EXCEPT !.isObj = FALSE],
      [GoodStep EXCEPT !.cmdIsStr = FALSE],
      [GoodStep EXCEPT !.outputsIsArray = FALSE],
      Step("none", Args("strings"), <<Out(FALSE, TRUE, <<"etc">>)>>) }
    \cup {Step(c, Args(a), <<>>) : c \in CommandStrings, a \in ArgumentKinds}

\* The outputs of step i, when output j of the plan belongs to step owner[j].
OutputsOf(flat, owner, i) ==
    LET idx == {j \in DOMAIN flat : owner[j] = i} IN
    IF idx = {} THEN <<>> ELSE SubSeq(flat, Min(idx), Max(idx))

\* The ways to deal m outputs to n steps in order: owner[j] is the step of
\* output j, and never decreases.
Deals(m, n) ==
    {o \in [1..m -> 1..n] : \A j \in 1..m : \A k \in 1..m : j <= k => o[j] <= o[k]}

PlanWith(steps) ==
    [isObj |-> TRUE, stepsIsArray |-> TRUE, overviewIsStr |-> TRUE,
     followUpIsStr |-> TRUE, steps |-> steps]

\* plan is a plan of n good steps with m outputs dealt to them in order.
IsPathPlan(plan, n, m) ==
    \E flat \in [1..m -> PathOutputs \cup BadOutputs] : \E owner \in Deals(m, n) :
        plan = PlanWith([i \in 1..n |->
                   [GoodStep EXCEPT !.outputs = OutputsOf(flat, owner, i)]])

\* plan is a plan of n steps of any shape.
IsShapePlan(plan, n) ==
    \E hs \in [1..n -> ShapeSteps] : plan = PlanWith(hs)

\* Plans that fail before any step is looked at: not an object, steps
\* missing, steps empty.
StepLessPlans ==
    { [PlanWith(<<>>) EXCEPT !.isObj = FALSE],
      [PlanWith(<<>>) EXCEPT !.stepsIsArray = FALSE],
      PlanWith(<<>>) }

\* A plan whose optional overview and followUp are not strings.
BarePlan ==
    [PlanWith(<<GoodStep>>) EXCEPT !.overviewIsStr = FALSE, !.followUpIsStr = FALSE]

Dir(ws, abs, segs) == [isStr |-> TRUE, ws |-> ws, abs |-> abs, segs |-> segs]

\* Output directories that pass, with the working directory of the call.
GoodDirs ==
    { [dir |-> Dir(FALSE, TRUE, <<"out">>), cwd |-> <<>>],        \* /out, from /
      [dir |-> Dir(FALSE, TRUE, <<"out">>), cwd |-> <<"out">>],   \* /out, from /out
      [dir |-> Dir(FALSE, FALSE, <<"out">>), cwd |-> <<>>] }      \* out, from /

\* Output directories that do not: blank, and not a string.
BadDirs ==
    { [dir |-> Dir(TRUE, FALSE, <<>>), cwd |-> <<>>],
      [dir |-> [Dir(FALSE, FALSE, <<>>) EXCEPT !.isStr = FALSE], cwd |-> <<>>] }

-----------------------------------------------------------------------------
(* SpecValidate: validate applied to a raw plan *)

\* The calls validate(plan, outputDir) of the model.
IsValidateCall(plan, at) ==
    \/ /\ at \in GoodDirs
       /\ \E n \in 1..MaxSteps : \E m \in 0..MaxOutputs : IsPathPlan(plan, n, m)
    \/ /\ at \in GoodDirs \cup BadDirs
       /\ \/ \E n \in 1..MaxSteps : IsShapePlan(plan, n)
          \/ plan \in StepLessPlans \cup {BarePlan}

\* The registries of the model: ToolRegistry.createDefault(), and one
\* built with a definition more.
Registries ==
    { NewToolRegistry(<<>>), NewToolRegistry([rm |-> [title |-> "rm"]]) }

InitValidate ==
    /\ AgentIdle
    /\ ExtrasIdle
    /\ fs = {}
    /\ vpc = "call"
    /\ definitions \in Registries
    /\ \E at \in GoodDirs \cup BadDirs :
          /\ cwd = at.cwd
          /\ outputDir = at.dir
          /\ IsValidateCall(rawPlan0, at)
    /\ planObj = rawPlan0
    /\ vError = ""
    /\ vIndex = 0
    /\ vReturn = "none"

\* validate(plan, outputDir) runs to its return or its throw.
Validate ==
    /\ vpc = "call"
    /\ LET v == validate(definitions, planObj, outputDir, cwd) IN
       /\ vpc' = IF v.r.ok THEN "returned" ELSE "threw"
       /\ planObj' = v.obj
       /\ vError' = v.r.error
       /\ vIndex' = v.r.index
       /\ vReturn' = IF v.r.ok THEN v.r.value ELSE "none"
    /\ UNCHANGED <<definitions, cwd, rawPlan0, outputDir>>
    /\ UNCHANGED xvars
    /\ UNCHANGED <<avars, evars>>

NextValidate == Validate

SpecValidate == InitValidate /\ [][NextValidate]_vars

-----------------------------------------------------------------------------
(* OpenAIPlanner.plan: the parsed response is normalised, then validated *)

\* The members command, arguments and outputs a parsed response has at its
\* top (the single-command form), as a step; NoTop: it has none of them.
NoTop ==
    [isObj |-> TRUE, cmdIsStr |-> FALSE, command |-> "", args |-> Args("notArray"),
     outputsIsArray |-> FALSE, outputs |-> <<>>]

\* A parsed response: a plan, and the members at its top.
Parsed(plan, top) ==
    [isJson |-> TRUE, isObj |-> plan.isObj, stepsIsArray |-> plan.stepsIsArray,
     overviewIsStr |-> plan.overviewIsStr, followUpIsStr |-> plan.followUpIsStr,
     steps |-> plan.steps, top |-> top]

\* A response text JSON.parse throws on.
NotJson == [Parsed(PlanWith(<<>>), NoTop) EXCEPT !.isJson = FALSE]

\* Array.isArray(x) ? [...x] : [] for the arguments of a step
ArgumentsOrEmpty(args) == IF args.isArray THEN args ELSE Args("empty")

\* The step normalizePlanStructure makes of an element of steps:
\* step?.command, and arguments and outputs copied or replaced by [].
NormalizeStep(step) ==
    [isObj |-> TRUE,
     cmdIsStr |-> step.isObj /\ step.cmdIsStr,
     command |-> IF step.isObj THEN step.command ELSE "",
     args |-> IF step.isObj THEN ArgumentsOrEmpty(step.args) ELSE Args("empty"),
     outputsIsArray |-> TRUE,
     outputs |-> IF step.isObj /\ step.outputsIsArray THEN step.outputs ELSE <<>>]

\* normalizePlanStructure(value)
normalizePlanStructure(value) ==
    IF ~value.isObj THEN [PlanWith(<<>>) EXCEPT !.isObj = FALSE, !.stepsIsArray = FALSE]
    ELSE IF value.stepsIsArray
    THEN PlanWith([i \in 1..Len(value.steps) |-> NormalizeStep(value.steps[i])])
    ELSE PlanWith(<<[isObj |-> TRUE,
                     cmdIsStr |-> TRUE,
                     command |-> IF value.top.cmdIsStr THEN value.top.command ELSE "none",
                     args |-> ArgumentsOrEmpty(value.top.args),
                     outputsIsArray |-> TRUE,
                     outputs |-> IF value.top.outputsIsArray THEN value.top.outputs
                                 ELSE <<>>]>>)

\* What plan returns or throws: kind, the error with what is attached to
\* it, and the rawPlan and debug of the value returned.
PlannerReturned(debug) ==
    [kind |-> "returned", error |-> PlannerError("undefined", "undefined", "undefined"),
     rawPlan |-> "normalized", debug |-> debug]
PlannerThrew(error) ==
    [kind |-> "threw", error |-> error, rawPlan |-> "undefined", debug |-> "undefined"]

\* The members at the top of a single-command response.
Tops ==
    { NoTop,
      [NoTop EXCEPT !.cmdIsStr = TRUE, !.command = "ffmpeg"],
      [NoTop EXCEPT !.cmdIsStr = TRUE, !.command = "ffmpeg", !.args = Args("strings"),
                    !.outputsIsArray = TRUE],
      [NoTop EXCEPT !.cmdIsStr = TRUE, !.command = "rm", !.args = Args("mixed"),
                    !.outputsIsArray = TRUE] }

\* The output directory of the request and the working directory.
PlannerDirs ==
    { [dir |-> Dir(FALSE, TRUE, <<"out">>), cwd |-> <<>>],
      [dir |-> Dir(TRUE, FALSE, <<>>), cwd |-> <<>>] }

\* value is what JSON.parse gave: a value that is no object, a response
\* with a steps array of up to MaxSteps steps of any shape or an empty
\* one, or a single-command response.
IsParsedResponse(value) ==
    \/ value = Parsed([PlanWith(<<>>) EXCEPT !.isObj = FALSE, !.stepsIsArray = FALSE], NoTop)
    \/ \E n \in 0..MaxSteps : \E hs \in [1..n -> ShapeSteps] :
          value = Parsed(PlanWith(hs), NoTop)
    \/ \E top \in Tops :
          value = Parsed([PlanWith(<<>>) EXCEPT !.stepsIsArray = FALSE], top)

InitPlanner ==
    /\ AgentIdle
    /\ fs = {}
    /\ vpc = "call"
    /\ definitions = NewToolRegistry(<<>>)
    /\ \E at \in PlannerDirs : cwd = at.cwd /\ outputDir = at.dir
    /\ rawPlan0 = <<>>
    /\ planObj = <<>>
    /\ vError = ""
    /\ vIndex = 0
    /\ vReturn = "none"
    /\ \/ parsed = NotJson
       \/ IsParsedResponse(parsed)
    /\ plannerDebug \in BOOLEAN
    /\ plannerOut = [kind |-> "none"]
    /\ ServerIdle
    /\ TrackerIdle
    /\ RunsIdle

\* plan(request, options) after the response has come: JSON.parse,
\* normalizePlanStructure, validate, and the return or the throw.
Plan ==
    /\ plannerOut.kind = "none"
    /\ vpc = "call"
    /\ IF ~parsed.isJson
       THEN /\ plannerOut' = PlannerThrew(PlannerError("undefined", "undefined", "undefined"))
            /\ UNCHANGED <<vpc, rawPlan0, planObj, vError, vIndex, vReturn>>
       ELSE LET normalized == normalizePlanStructure(parsed)
                debug == IF plannerDebug THEN "debug" ELSE "undefined"
                v == validate(definitions, normalized, outputDir, cwd)
            IN /\ rawPlan0' = normalized
               /\ planObj' = v.obj
               /\ vpc' = IF v.r.ok THEN "returned" ELSE "threw"
               /\ vError' = v.r.error
               /\ vIndex' = v.r.index
               /\ vReturn' = IF v.r.ok THEN v.r.value ELSE "none"
               /\ plannerOut' = IF v.r.ok THEN PlannerReturned(debug)
                                ELSE PlannerThrew(PlannerError("normalized", debug,
                                                               "responseText"))
    /\ UNCHANGED <<definitions, cwd, outputDir, parsed, plannerDebug>>
    /\ UNCHANGED <<svars, tvars, cvars>>
    /\ UNCHANGED <<avars, evars>>

NextPlanner == Plan

SpecPlanner == InitPlanner /\ [][NextPlanner]_vars

-----------------------------------------------------------------------------
(* MediaAgentServer: handleTaskRequest, handleRevisionRequest and the      *)
(* session records they write.  Session 0 is that of the task request,     *)
(* session r that of revision request r; every revision names session 0.   *)

MaxRevisions == 2

SessionIds == 0..MaxRevisions

\* A session record: whether its file exists, its status, its complaints.
NoRecord == [exists |-> FALSE, status |-> "", complaints |-> <<>>]

\* buildSessionRecord(payload) for a payload without complaints
buildSessionRecord(status) == [exists |-> TRUE, status |-> status, complaints |-> <<>>]

\* a ?? b, for a value that may be missing, undefined or null
Coalesce(value, other) ==
    IF value \in {"absent", "undefined", "null"} THEN other ELSE value

\* createRequestPhase(task, files, options)
RequestPhase == [id |-> "request", status |-> "success", error |-> NoError]

\* The phases array of a tracker: its phases in their order.
PhaseOrder == <<"plan", "execute", "summarize">>
PhaseList(ph) ==
    LET ids == SelectSeq(PhaseOrder, LAMBDA id : id \in DOMAIN ph) IN
    [k \in 1..Len(ids) |->
        [id |-> ids[k], status |-> ph[ids[k]].status, error |-> ph[ids[k]].error]]

\* A response: the HTTP status code (0: none sent) and the body.
NoBody ==
    [status |-> "", phases |-> <<>>, plan |-> "absent", rawPlan |-> "absent",
     responseText |-> "absent", debug |-> "absent"]
NoResponse == [code |-> 0, body |-> NoBody]
Response(code, body) == [code |-> code, body |-> body]

\* The body of the failure response when every error is handled as one
\* that is no MediaAgentTaskError.
FailedBodyPlain(error, debugEnabled) ==
    [status |-> "failed", phases |-> <<RequestPhase>>, plan |-> "null", rawPlan |-> "null",
     responseText |-> "null", debug |-> IF debugEnabled THEN "null" ELSE "undefined"]

\* The body of the failure response: the catch block of handleTaskRequest.
FailedBody(error, debugEnabled) ==
    LET isAgentError == error.kind = "MediaAgentTaskError"
        errorContext == IF isAgentError THEN error.context ELSE NoContext
        planPayload == IF isAgentError THEN Coalesce(errorContext.plan, "null") ELSE "null"
        rawPlan == IF isAgentError THEN Coalesce(errorContext.rawPlan, planPayload)
                   ELSE "null"
    IN [status |-> "failed",
        phases |-> <<RequestPhase>> \o (IF isAgentError THEN PhaseList(error.phases)
                                        ELSE <<>>),
        plan |-> planPayload,
        rawPlan |-> rawPlan,
        responseText |-> IF isAgentError THEN Coalesce(errorContext.responseText, "null")
                         ELSE "null",
        debug |-> IF debugEnabled THEN Coalesce(errorContext.debug, "null")
                  ELSE "undefined"]

\* The body of the success response.
SuccessBody(agentResponse, debugEnabled) ==
    [status |-> "success",
     phases |-> <<RequestPhase>> \o PhaseList(agentResponse.phases),
     plan |-> "plan", rawPlan |-> "rawPlan", responseText |-> "absent",
     debug |-> IF debugEnabled THEN "debug" ELSE "undefined"]

\* The tracker of a run that awaits the planner, and the executor.
AwaitingPlan == TrackerStart(NewTaskPhaseTracker, "plan")
AwaitingExecute == TrackerStart(TrackerComplete(AwaitingPlan, "plan"), "execute")

\* The error the agent of the server's test throws: one failed phase and
\* a context with plan, rawPlan, responseText and debug.
StubAgentError ==
    MediaAgentTaskError("Planner failed",
        [id \in {"execute"} |-> [status |-> "failed", error |-> NoError,
                                  history |-> <<"failed">>]],
        NoError,
        [NoContext EXCEPT !.plan = "plan", !.rawPlan = "rawPlan",
                          !.responseText = "responseText", !.debug = "debug"])

\* An error that is no MediaAgentTaskError.
PlainError == [NoOutcome EXCEPT !.kind = "Error", !.message = "boom"]

\* What agent.runTask(request, {debug, ...}) settles with: its return, the
\* errors of its plan phase and of its execute phase, and the two above.
AgentOutcomes(debug) ==
    { Returned(TrackerComplete(TrackerStart(TrackerComplete(AwaitingExecute, "execute"),
                                            "summarize"), "summarize")) }
    \cup { PlanCatch(AwaitingPlan, error) :
              error \in {e \in PlannerErrors : e.debug = "undefined" \/ debug} }
    \cup { ExecuteCatch(AwaitingExecute, SpawnError),
           ExecuteCatch(TrackerFail(AwaitingExecute, "execute",
                                    Error("CommandExecutionError",
                                          Msg("Command exited with code", "ffmpeg", "1"))),
                        Error("MediaAgentTaskError", Msg("Execution phase failed", "", ""))),
           StubAgentError,
           PlainError }

\* What the handlers of the server leave alone.
nsvars == <<vpc, definitions, cwd, rawPlan0, planObj, outputDir, vError, vIndex, vReturn,
            pvars, tvars, cvars, avars, evars>>

NoTask == [pc |-> "idle", debug |-> FALSE, outcome |-> NoOutcome, response |-> NoResponse]

NoRev == [pc |-> "idle", status |-> "", local |-> NoRecord, code |-> 0]

\* handleTaskRequest from its call to the await of agent.runTask, or to
\* the response for a blank task (400) or a missing session (500).
HandleTaskRequest ==
    /\ task.pc = "idle"
    /\ \E input \in {"ok", "debug", "noTask", "noSession"} :
          task' = IF input = "noTask"
                  THEN [task EXCEPT !.pc = "done", !.response = Response(400, NoBody)]
                  ELSE IF input = "noSession"
                  THEN [task EXCEPT !.pc = "done", !.response = Response(500, NoBody)]
                  ELSE [task EXCEPT !.pc = "awaitRunTask", !.debug = (input = "debug")]
    /\ UNCHANGED <<store, revs>>
    /\ UNCHANGED nsvars

\* agent.runTask settled: the record is built and writeSessionRecord called.
TaskRunSettles ==
    /\ task.pc = "awaitRunTask"
    /\ \E o \in AgentOutcomes(task.debug) :
          task' = [task EXCEPT !.pc = "awaitWrite", !.outcome = o]
    /\ UNCHANGED <<store, revs>>
    /\ UNCHANGED nsvars

\* writeSessionRecord resolved: the response is sent.
TaskRecordWritten ==
    /\ task.pc = "awaitWrite"
    /\ LET ok == task.outcome.kind = "returned" IN
       /\ store' = [store EXCEPT ![0] = buildSessionRecord(IF ok THEN "success"
                                                            ELSE "failed")]
       /\ task' = [task EXCEPT
                     !.pc = "done",
                     !.response = IF ok
                                  THEN Response(200, SuccessBody(task.outcome, task.debug))
                                  ELSE Response(500, FailedBody(task.outcome, task.debug))]
    /\ UNCHANGED revs
    /\ UNCHANGED nsvars

\* handleRevisionRequest from its call to the await of readSessionRecord,
\* or to the response for a missing sessionId or complaint (400) or a
\* missing session (500).
HandleRevisionRequest(r) ==
    /\ revs[r].pc = "idle"
    /\ \E input \in {"ok", "noSessionId", "noComplaint", "noSession"} :
          revs' = [revs EXCEPT ![r] =
                     IF input = "ok" THEN [@ EXCEPT !.pc = "awaitBase"]
                     ELSE [@ EXCEPT !.pc = "done",
                                    !.code = IF input = "noSession" THEN 500 ELSE 400]]
    /\ UNCHANGED <<store, task>>
    /\ UNCHANGED nsvars

\* readSessionRecord(baseSessionId) resolved: 404 when there is no record,
\* else the history and the files are collected and agent.runTask called.
BaseRecordRead(r) ==
    /\ revs[r].pc = "awaitBase"
    /\ revs' = [revs EXCEPT ![r] =
                  IF store[0].exists THEN [@ EXCEPT !.pc = "awaitRunTask"]
                  ELSE [@ EXCEPT !.pc = "done", !.code = 404]]
    /\ UNCHANGED <<store, task>>
    /\ UNCHANGED nsvars

\* agent.runTask settled: the record of the revision is built and
\* writeSessionRecord called.
RevisionRunSettles(r) ==
    /\ revs[r].pc = "awaitRunTask"
    /\ \E status \in {"success", "failed"} :
          revs' = [revs EXCEPT ![r] = [@ EXCEPT !.pc = "awaitWrite", !.status = status]]
    /\ UNCHANGED <<store, task>>
    /\ UNCHANGED nsvars

\* writeSessionRecord(record) resolved: appendComplaintEntry is called and
\* awaits its readSessionRecord.
RevisionRecordWritten(r) ==
    /\ revs[r].pc = "awaitWrite"
    /\ store' = [store EXCEPT ![r] = buildSessionRecord(revs[r].status)]
    /\ revs' = [revs EXCEPT ![r].pc = "awaitAppendRead"]
    /\ UNCHANGED task
    /\ UNCHANGED nsvars

\* appendComplaintEntry after its read: nothing to do when there is no
\* record (the response is sent), else the entry is pushed on a copy of
\* the complaints and writeSessionRecord called.
appendComplaintEntryRead(r) ==
    /\ revs[r].pc = "awaitAppendRead"
    /\ LET record == store[0]
           entry == [followUpSessionId |-> r, status |-> revs[r].status]
       IN revs' = [revs EXCEPT ![r] =
                     IF ~record.exists
                     THEN [@ EXCEPT !.pc = "done",
                                    !.code = IF revs[r].status = "success" THEN 200 ELSE 500]
                     ELSE [@ EXCEPT !.pc = "awaitAppendWrite",
                                    !.local = [record EXCEPT
                                                 !.complaints = Append(@, entry)]]]
    /\ UNCHANGED <<store, task>>
    /\ UNCHANGED nsvars

\* appendComplaintEntry's writeSessionRecord resolved: the record it read,
\* with the entry, is the file now, and the response is sent.
appendComplaintEntryWritten(r) ==
    /\ revs[r].pc = "awaitAppendWrite"
    /\ store' = [store EXCEPT ![0] = revs[r].local]
    /\ revs' = [revs EXCEPT ![r] =
                  [@ EXCEPT !.pc = "done",
                            !.code = IF revs[r].status = "success" THEN 200 ELSE 500]]
    /\ UNCHANGED task
    /\ UNCHANGED nsvars

InitServer ==
    /\ AgentIdle
    /\ fs = {}
    /\ PlannerIdle
    /\ vpc = "idle"
    /\ definitions = NewToolRegistry(<<>>)
    /\ cwd = <<>>
    /\ rawPlan0 = <<>>
    /\ planObj = <<>>
    /\ outputDir = <<>>
    /\ vError = ""
    /\ vIndex = 0
    /\ vReturn = "none"
    /\ TrackerIdle
    /\ RunsIdle
    /\ store = [id \in SessionIds |-> NoRecord]
    /\ task = NoTask
    /\ revs = [r \in 1..MaxRevisions |-> NoRev]

NextServer ==
    \/ HandleTaskRequest
    \/ TaskRunSettles
    \/ TaskRecordWritten
    \/ \E r \in 1..MaxRevisions : HandleRevisionRequest(r)
    \/ \E r \in 1..MaxRevisions : BaseRecordRead(r)
    \/ \E r \in 1..MaxRevisions : RevisionRunSettles(r)
    \/ \E r \in 1..MaxRevisions : RevisionRecordWritten(r)
    \/ \E r \in 1..MaxRevisions : appendComplaintEntryRead(r)
    \/ \E r \in 1..MaxRevisions : appendComplaintEntryWritten(r)

SpecServer == InitServer /\ [][NextServer]_vars

-----------------------------------------------------------------------------
(* A TaskPhaseTracker whose getPhases() value a caller holds and changes. *)
(* Objects are told apart: a phase refers to its error object and to its   *)
(* log entries by their place in theap (0: null).                          *)

MaxObjects == 2

\* The phases of new TaskPhaseTracker(phases), by object.
NewPhaseObject == [status |-> "pending", error |-> 0, meta |-> "meta", logs |-> <<>>]

\* What a phase holds, by value: the message of its error object (or
\* null) and the messages of its log entries.
DeepPhase(phase, heap) ==
    [status |-> phase.status,
     error |-> IF phase.error = 0 THEN "null" ELSE heap[phase.error],
     meta |-> phase.meta,
     logs |-> [k \in 1..Len(phase.logs) |-> heap[phase.logs[k]]]]

\* getPhases(): a new array of new phase objects, each with a new meta
\* object and a new logs array; the error object and the log entries are
\* those of the tracker.
getPhases(ph) ==
    [id \in DOMAIN ph |->
        [status |-> ph[id].status, error |-> ph[id].error, meta |-> ph[id].meta,
         logs |-> ph[id].logs]]

\* What getPhases() returns now, by value.
Snapshot == [id \in DOMAIN tphases |-> DeepPhase(getPhases(tphases)[id], theap)]

\* The phase ids of the tracker of the model, new TaskPhaseTracker(phases).
TrackedPhases == {{"execute"}}

InitTracker ==
    /\ AgentIdle
    /\ fs = {}
    /\ PlannerIdle
    /\ ServerIdle
    /\ RunsIdle
    /\ vpc = "idle"
    /\ definitions = NewToolRegistry(<<>>)
    /\ cwd = <<>>
    /\ rawPlan0 = <<>>
    /\ planObj = <<>>
    /\ outputDir = <<>>
    /\ vError = ""
    /\ vIndex = 0
    /\ vReturn = "none"
    /\ \E ids \in TrackedPhases :
          /\ tphases = [id \in ids |-> NewPhaseObject]
          /\ pristine = [id \in ids |-> DeepPhase(NewPhaseObject, <<>>)]
    /\ theap = <<>>
    /\ snap = [taken |-> FALSE, phases |-> <<>>]

\* What the tracker and its caller leave alone.
ntvars == <<vpc, definitions, cwd, rawPlan0, planObj, outputDir, vError, vIndex, vReturn,
            pvars, svars, cvars, avars, evars>>

\* tracker.start(id)
Start(id) ==
    /\ id \in DOMAIN tphases
    /\ tphases' = [tphases EXCEPT ![id].status = "in_progress"]
    /\ pristine' = [pristine EXCEPT ![id].status = "in_progress"]
    /\ UNCHANGED <<theap, snap>>
    /\ UNCHANGED ntvars

\* tracker.complete(id)
Complete(id) ==
    /\ id \in DOMAIN tphases
    /\ tphases' = [tphases EXCEPT ![id].status = "success"]
    /\ pristine' = [pristine EXCEPT ![id].status = "success"]
    /\ UNCHANGED <<theap, snap>>
    /\ UNCHANGED ntvars

\* tracker.fail(id, error): a new error object is made for the phase.
Fail(id) ==
    /\ id \in DOMAIN tphases
    /\ Len(theap) < MaxObjects
    /\ theap' = Append(theap, "message")
    /\ tphases' = [tphases EXCEPT ![id].status = "failed", ![id].error = Len(theap')]
    /\ pristine' = [pristine EXCEPT ![id].status = "failed", ![id].error = "message"]
    /\ UNCHANGED snap
    /\ UNCHANGED ntvars

\* tracker.log(id, message): a new entry is pushed on the phase's logs.
Log(id) ==
    /\ id \in DOMAIN tphases
    /\ Len(theap) < MaxObjects
    /\ theap' = Append(theap, "message")
    /\ tphases' = [tphases EXCEPT ![id].logs = Append(@, Len(theap'))]
    /\ pristine' = [pristine EXCEPT ![id].logs = Append(@, "message")]
    /\ UNCHANGED snap
    /\ UNCHANGED ntvars

\* The caller calls getPhases() and keeps what it returns.
GetPhases ==
    /\ snap' = [taken |-> TRUE, phases |-> getPhases(tphases)]
    /\ UNCHANGED <<tphases, theap, pristine>>
    /\ UNCHANGED ntvars

\* The caller assigns to a phase object of the array it holds (its status,
\* its error member), or to its meta object.
MutatePhaseObject(id) ==
    /\ id \in DOMAIN tphases
    /\ snap.taken
    /\ \E field \in {"status", "meta", "error"} :
          snap' = IF field = "status" THEN [snap EXCEPT !.phases[id].status = "changed"]
                  ELSE IF field = "meta" THEN [snap EXCEPT !.phases[id].meta = "changed"]
                  ELSE [snap EXCEPT !.phases[id].error = 0]
    /\ UNCHANGED <<tphases, theap, pristine>>
    /\ UNCHANGED ntvars

\* The caller empties the logs array of a phase it holds.
MutateLogsArray(id) ==
    /\ id \in DOMAIN tphases
    /\ snap.taken
    /\ snap.phases[id].logs # <<>>
    /\ snap' = [snap EXCEPT !.phases[id].logs = <<>>]
    /\ UNCHANGED <<tphases, theap, pristine>>
    /\ UNCHANGED ntvars

\* The caller assigns to the message of a log entry it holds.
MutateLogEntry(id) ==
    /\ id \in DOMAIN tphases
    /\ snap.taken
    /\ \E k \in 1..Len(snap.phases[id].logs) :
          theap' = [theap EXCEPT ![snap.phases[id].logs[k]] = "changed"]
    /\ UNCHANGED <<tphases, snap, pristine>>
    /\ UNCHANGED ntvars

\* The caller assigns to the message of the error object it holds.
MutateErrorObject(id) ==
    /\ id \in DOMAIN tphases
    /\ snap.taken
    /\ snap.phases[id].error # 0
    /\ theap' = [theap EXCEPT ![snap.phases[id].error] = "changed"]
    /\ UNCHANGED <<tphases, snap, pristine>>
    /\ UNCHANGED ntvars

NextTracker ==
    \/ \E id \in PhaseIds : Start(id)
    \/ \E id \in PhaseIds : Complete(id)
    \/ \E id \in PhaseIds : Fail(id)
    \/ \E id \in PhaseIds : Log(id)
    \/ GetPhases
    \/ \E id \in PhaseIds : MutatePhaseObject(id)
    \/ \E id \in PhaseIds : MutateLogsArray(id)
    \/ \E id \in PhaseIds : MutateLogEntry(id)
    \/ \E id \in PhaseIds : MutateErrorObject(id)

SpecTracker == InitTracker /\ [][NextTracker]_vars

-----------------------------------------------------------------------------
(* Several runTask calls in flight on one MediaAgent.  The planner and the *)
(* executor answer each call on its own; the trackers are objects, and a   *)
(* call works on the one it refers to.                                     *)

MaxRuns == 2

\* this.tracker = new TaskPhaseTracker(): one tracker object of the agent,
\* made anew by every call and used by all of them.
NewTrackerOfAgent(heap) ==
    [heap |-> IF heap = <<>> THEN <<NewTaskPhaseTracker>>
              ELSE [heap EXCEPT ![1] = NewTaskPhaseTracker],
     ref |-> 1]

\* const tracker = new TaskPhaseTracker(): a new object, known to the
\* call that made it.
NewTrackerOfCall(heap) ==
    [heap |-> Append(heap, NewTaskPhaseTracker), ref |-> Len(heap) + 1]

\* What planner.plan answers a call with: a validated plan, or an error.
PlanAnswers ==
    { [rejected |-> FALSE, plan |-> p, error |-> PlannerError("undefined", "undefined",
                                                              "undefined")] :
        p \in { [steps |-> <<[command |-> "ffmpeg", outputs |-> <<>>]>>],
                [steps |-> <<[command |-> "none", outputs |-> <<>>]>>] } }
    \cup { [rejected |-> TRUE, plan |-> [steps |-> <<>>], error |-> e] :
             e \in PlannerErrors }

\* What executor.execute answers a call with: the result of the one step
\* of its plan (exit code 0, exit code 1, timed out, or skipped), or the
\* error of a tool that could not be started.
ExecuteAnswers(plan) ==
    IF plan.steps[1].command = "none"
    THEN { [rejected |-> FALSE, error |-> NoError,
            result |-> BuildResult(<<Skipped(plan.steps[1], "no_op_command")>>)] }
    ELSE { [rejected |-> FALSE, error |-> NoError,
            result |-> BuildResult(<<Executed(plan.steps[1], v)>>)] :
             v \in { [exitCode |-> "0", timedOut |-> FALSE],
                     [exitCode |-> "1", timedOut |-> FALSE],
                     [exitCode |-> "null", timedOut |-> TRUE] } }
         \cup { [rejected |-> TRUE, error |-> SpawnError, result |-> NoResult] }

NoPlanAnswer ==
    [rejected |-> FALSE, plan |-> [steps |-> <<>>],
     error |-> PlannerError("undefined", "undefined", "undefined")]
NoExecuteAnswer == [rejected |-> FALSE, error |-> NoError, result |-> NoResult]

NoRun ==
    [pc |-> "idle", tracker |-> 0, planAnswer |-> NoPlanAnswer,
     executeAnswer |-> NoExecuteAnswer, outcome |-> NoOutcome]

\* runTask once planner.plan has settled: the phases it leaves, what it
\* throws, and where it is.
AfterPlan(ph, answer) ==
    IF answer.rejected
    THEN LET e == PlanCatch(ph, answer.error) IN
         [phases |-> e.phases, outcome |-> e, pc |-> "threw"]
    ELSE [phases |-> TrackerStart(TrackerComplete(ph, "plan"), "execute"),
          outcome |-> NoOutcome, pc |-> "awaitExecute"]

InitRuns ==
    /\ AgentIdle
    /\ fs = {}
    /\ PlannerIdle
    /\ ServerIdle
    /\ TrackerIdle
    /\ vpc = "idle"
    /\ definitions = NewToolRegistry(<<>>)
    /\ cwd = <<>>
    /\ rawPlan0 = <<>>
    /\ planObj = <<>>
    /\ outputDir = <<>>
    /\ vError = ""
    /\ vIndex = 0
    /\ vReturn = "none"
    /\ trackers = <<>>
    /\ runs = [r \in 1..MaxRuns |-> NoRun]

\* What the calls in flight leave alone.
ncvars == <<vpc, definitions, cwd, rawPlan0, planObj, outputDir, vError, vIndex, vReturn,
            pvars, svars, tvars, avars, evars>>

\* Call r of runTask: its tracker is made, phase plan started and
\* planner.plan awaited.
RunCalled(r) ==
    /\ runs[r].pc = "idle"
    /\ LET t == NewTrackerOfCall(trackers) IN
       /\ trackers' = [t.heap EXCEPT ![t.ref] = TrackerStart(@, "plan")]
       /\ runs' = [runs EXCEPT ![r].pc = "awaitPlan", ![r].tracker = t.ref]
    /\ UNCHANGED ncvars

\* planner.plan answers call r.
RunPlanSettles(r) ==
    /\ runs[r].pc = "awaitPlan"
    /\ \E answer \in PlanAnswers :
          LET a == AfterPlan(trackers[runs[r].tracker], answer) IN
          /\ trackers' = [trackers EXCEPT ![runs[r].tracker] = a.phases]
          /\ runs' = [runs EXCEPT ![r].pc = a.pc, ![r].planAnswer = answer,
                                  ![r].outcome = a.outcome]
    /\ UNCHANGED ncvars

\* executor.execute answers call r.
RunExecuteSettles(r) ==
    /\ runs[r].pc = "awaitExecute"
    /\ \E answer \in ExecuteAnswers(runs[r].planAnswer.plan) :
          LET a == AfterExecute(trackers[runs[r].tracker], answer.rejected, answer.error,
                                answer.result)
          IN /\ trackers' = [trackers EXCEPT ![runs[r].tracker] = a.phases]
             /\ runs' = [runs EXCEPT ![r].pc = a.pc, ![r].executeAnswer = answer,
                                     ![r].outcome = a.outcome]
    /\ UNCHANGED ncvars

NextRuns ==
    \/ \E r \in 1..MaxRuns : RunCalled(r)
    \/ \E r \in 1..MaxRuns : RunPlanSettles(r)
    \/ \E r \in 1..MaxRuns : RunExecuteSettles(r)

SpecRuns == InitRuns /\ [][NextRuns]_vars

-----------------------------------------------------------------------------
(* Claims about PlanValidator.validate, under SpecValidate *)

ValidateDone == vpc \in {"returned", "threw"}

\* resolve(outputDir), as validate computes it.
NormalizedOutputDir == PathResolve(cwd, outputDir)

\* p is dir or lies below it.
Inside(dir, p) == Len(dir) <= Len(p) /\ SubSeq(p, 1, Len(dir)) = dir

\* The steps of the raw plan that are objects, by index.
RawStepIndexes ==
    IF rawPlan0.isObj /\ rawPlan0.stepsIsArray
    THEN {i \in 1..Len(rawPlan0.steps) : rawPlan0.steps[i].isObj}
    ELSE {}

\* The output paths the raw plan declares: the string paths of the output
\* objects of its steps' output arrays, read as the validator reads them
\* (surrounding whitespace dropped).
RawOutputLocations ==
    UNION { { PathResolve(cwd, Trim(rawPlan0.steps[i].outputs[j])) :
                j \in { k \in 1..Len(rawPlan0.steps[i].outputs) :
                          /\ rawPlan0.steps[i].outputs[k].isObj
                          /\ rawPlan0.steps[i].outputs[k].pathIsStr } } :
            i \in { k \in RawStepIndexes : rawPlan0.steps[k].outputsIsArray } }

\* The output paths of the plan validate returned.
ReturnedOutputPaths ==
    UNION { { planObj.steps[i].outputs[j].path : j \in 1..Len(planObj.steps[i].outputs) } :
            i \in 1..Len(planObj.steps) }

\* C1: path containment.  When some output path of the raw plan resolves to
\* a location that is neither resolve(outputDir) nor below it, validate
\* throws; every output path of a plan validate returns is an absolute
\* normalised path that is resolve(outputDir) or lies below it.
C1_PathContainment ==
    ValidateDone =>
        /\ (\E p \in RawOutputLocations : ~Inside(NormalizedOutputDir, p)) => vpc = "threw"
        /\ vpc = "returned" =>
              \A p \in ReturnedOutputPaths :
                  /\ Inside(NormalizedOutputDir, p)
                  /\ p = NormalizeSegs(p, <<>>)

\* An escaping path (one that climbs out with "..") was the first defect
\* of a plan and validate threw on it.
C1_Witness ==
    /\ vpc = "threw"
    /\ vError = "PathEscapes"
    /\ \E p \in RawOutputLocations : ~Inside(NormalizedOutputDir, p)
    /\ \E i \in RawStepIndexes : \E j \in 1..Len(rawPlan0.steps[i].outputs) :
          ".." \in {rawPlan0.steps[i].outputs[j].segs[k] :
                        k \in 1..Len(rawPlan0.steps[i].outputs[j].segs)}

\* Step i is the first place of the raw plan where a check can fail at the
\* command: the plan, the output directory and every earlier step pass, and
\* step i is an object whose command is a string.
CommandCheckReached(i) ==
    /\ rawPlan0.isObj /\ rawPlan0.stepsIsArray
    /\ outputDir.isStr /\ ~IsEmptyString(Trim(outputDir))
    /\ i \in 1..Len(rawPlan0.steps)
    /\ \A j \in 1..(i - 1) :
          validateStep(definitions, rawPlan0.steps[j], j, NormalizedOutputDir, cwd).ok
    /\ rawPlan0.steps[i].isObj /\ rawPlan0.steps[i].cmdIsStr

\* C2: command allow-list.  A step command that is not an element of
\* listCommandIds() makes validate throw the unknown-command error at that
\* step; a command that is an element passes the command check.
C2_CommandAllowList ==
    ValidateDone =>
        \A i \in 1..MaxSteps + 1 :
            CommandCheckReached(i) =>
                IF rawPlan0.steps[i].command \in listCommandIds(definitions)
                THEN ~(vError = "UnknownCommand" /\ vIndex = i)
                ELSE vpc = "threw" /\ vError = "UnknownCommand" /\ vIndex = i

\* C11: copy-on-validate.  validate leaves the plan object it was given as
\* it was, whether it returns or throws, and what it returns is not that
\* object.
C11_CopyOnValidate ==
    ValidateDone =>
        /\ planObj = rawPlan0
        /\ vpc = "returned" => vReturn # "plan"

\* C20: registry membership.  For every command string, hasCommand is true
\* exactly when the string is a key of the definitions, an element of
\* listCommandIds().
C20_RegistryMembership ==
    \A id \in CommandStrings \cup ObjectPrototypeKeys :
        hasCommand(definitions, id) <=> id \in listCommandIds(definitions)

\* The raw plan has no steps: steps is missing, no array, or empty.
StepsMissingOrEmpty == ~rawPlan0.stepsIsArray \/ Len(rawPlan0.steps) = 0

ValidDir == outputDir.isStr /\ ~IsEmptyString(Trim(outputDir))

\* A valid output entry: an object whose path is a non-blank string naming
\* the output directory or a place below it whose path from the directory
\* does not begin with two dots.
ValidOutput(o) ==
    /\ o.isObj /\ o.pathIsStr /\ ~IsEmptyString(Trim(o))
    /\ LET p == PathResolve(cwd, Trim(o))
           n == Len(NormalizedOutputDir)
       IN /\ Inside(NormalizedOutputDir, p)
          /\ Len(p) > n => p[n + 1] \notin DotDotSegments

ValidStep(st) ==
    /\ st.isObj /\ st.cmdIsStr /\ st.command \in listCommandIds(definitions)
    /\ st.args.isArray /\ \A k \in 1..Len(st.args.elems) : st.args.elems[k].type = "string"
    /\ st.outputsIsArray /\ \A k \in 1..Len(st.outputs) : ValidOutput(st.outputs[k])

\* C12: non-empty steps.  validate throws for every raw plan whose steps is
\* missing, no array or empty, and returns for a plan of exactly one valid
\* step with a valid output directory.
C12_NonEmptySteps ==
    ValidateDone =>
        /\ StepsMissingOrEmpty => vpc = "threw"
        /\ ( /\ rawPlan0.isObj /\ rawPlan0.stepsIsArray /\ Len(rawPlan0.steps) = 1
             /\ ValidStep(rawPlan0.steps[1]) /\ ValidDir ) => vpc = "returned"

C12_Witness ==
    /\ vpc = "threw"
    /\ vError = "StepsMissing"
    /\ rawPlan0.isObj /\ rawPlan0.stepsIsArray /\ Len(rawPlan0.steps) = 0
    /\ ValidDir

\* Step i of the raw plan has arguments that are no array of strings.
BadArguments(i) ==
    \/ ~rawPlan0.steps[i].args.isArray
    \/ \E k \in 1..Len(rawPlan0.steps[i].args.elems) :
          rawPlan0.steps[i].args.elems[k].type # "string"

\* C13: arguments are strings only.  validate throws for every plan with a
\* step whose arguments is no array or has an element that is no string;
\* in the plan it returns, the arguments of each step are an array of
\* strings, element for element what the raw step had.
C13_ArgumentsAreStrings ==
    ValidateDone =>
        /\ (\E i \in RawStepIndexes : BadArguments(i)) => vpc = "threw"
        /\ vpc = "returned" =>
              \A i \in 1..Len(planObj.steps) :
                  /\ planObj.steps[i].arguments.isArray
                  /\ \A k \in 1..Len(planObj.steps[i].arguments.elems) :
                        planObj.steps[i].arguments.elems[k].type = "string"
                  /\ planObj.steps[i].arguments.elems = rawPlan0.steps[i].args.elems

C13_Witness ==
    /\ vpc = "threw"
    /\ vError = "InvalidArguments"
    /\ vIndex \in RawStepIndexes
    /\ rawPlan0.steps[vIndex].args.isArray
    /\ \E k \in 1..Len(rawPlan0.steps[vIndex].args.elems) :
          rawPlan0.steps[vIndex].args.elems[k].type = "number"

-----------------------------------------------------------------------------
(* Claims about CommandExecutor.execute and MediaAgent.runTask *)

PlanSteps == 1..Len(taskPlan.steps)

\* spawnProcess was called for step i.
Spawned(i) == procs[i].promise # "none"

\* The child of step i ended with a non-zero code, or its timeout fired.
ExitedNonZeroOrTimedOut(i) ==
    \/ procs[i].timedOut
    \/ procs[i].code \in ExitCodes \ {"0"}

IsSkippedWith(r, reason) == r.status = "skipped" /\ r.skipReason = reason

Alive == {i \in 1..MaxPlanSteps : procs[i].child = "running"}

ResultShowsFailure(res) ==
    \/ \E i \in 1..Len(res.steps) : res.steps[i].timedOut
    \/ \E i \in 1..Len(res.steps) :
          res.steps[i].status = "executed" /\ res.steps[i].exitCode \in ExitCodes \ {"0"}
    \/ res.exitCode \in ExitCodes \ {"0"}

RunTaskSettled == apc \in {"returned", "threw"}

\* C5: semantic failure detection.  When execute returned a result that
\* shows a failure, runTask ends by throwing a MediaAgentTaskError with
\* phase execute failed; it does not return.
C5_SemanticFailure ==
    (RunTaskSettled /\ epc = "returned" /\ ResultShowsFailure(result))
    => /\ apc = "threw"
       /\ outcome.kind = "MediaAgentTaskError"
       /\ phases["execute"].status = "failed"
       /\ outcome.phases["execute"].status = "failed"

C5_Witness ==
    /\ apc = "threw"
    /\ epc = "returned"
    /\ \E i \in 1..Len(result.steps) :
          result.steps[i].status = "executed" /\ result.steps[i].exitCode = "1"
    /\ outcome.kind = "MediaAgentTaskError"

InProgress == {id \in PhaseIds : phases[id].status = "in_progress"}

\* C6: phase gating.  Phase execute has left pending, or the executor has
\* been called, only if phase plan is success; phase summarize has left
\* pending only if phase execute is success; never two phases in progress.
C6_PhaseGating ==
    /\ (phases["execute"].status # "pending" \/ epc # "idle")
          => phases["plan"].status = "success"
    /\ phases["summarize"].status # "pending"
          => phases["execute"].status = "success"
    /\ Cardinality(InProgress) <= 1

C6_Witness ==
    /\ apc = "returned"
    /\ phases["summarize"].status = "success"
    /\ \E i \in 1..Len(result.steps) : result.steps[i].status = "executed"

AllNone == \A i \in PlanSteps : taskPlan.steps[i].command = "none"

ExecuteCalled == epc # "idle"

SpawnFailed(i) == Spawned(i) /\ procs[i].code = "-2"

\* C9: spawn errors are values.  execute never rejects, and when the
\* command of a step could not be started the result it returns records
\* that step as executed with a failing outcome.
C9_SpawnErrorsAreValues ==
    /\ epc # "threw"
    /\ \A i \in PlanSteps :
          (SpawnFailed(i) /\ epc = "returned")
          => /\ result.steps[i].status = "executed"
             /\ (result.steps[i].timedOut \/ result.steps[i].exitCode # "0")

\* The timeout of step i fired while its child was running.
TimedOutRunning(i) == procs[i].timer = "fired" /\ procs[i].child = "running"

\* The step resolved as timed out and the run failed on it.
TimeoutCounted(i) ==
    /\ procs[i].promise = "resolved"
    /\ procs[i].value = [exitCode |-> "null", timedOut |-> TRUE]
    /\ \A j \in (i + 1)..MaxPlanSteps : ~Spawned(j)
    /\ apc = "threw"
    /\ phases["execute"].status = "failed"
    /\ result.steps[i].timedOut
    /\ \A j \in (i + 1)..Len(taskPlan.steps) :
          IsSkippedWith(result.steps[j], "previous_step_failed")

\* The steps whose timeout timer has fired.
TimersFired == {i \in 1..MaxPlanSteps : procs[i].timer = "fired"}

-----------------------------------------------------------------------------
(* Claims about the result of CommandExecutor.execute *)

\* The steps a child was spawned for, and the first of them whose child
\* exited non-zero or timed out.
ExecutedSteps == {i \in PlanSteps : Spawned(i)}
FailedSteps == {i \in ExecutedSteps : ExitedNonZeroOrTimedOut(i)}

\* The exit outcome of step i: null when it timed out, else its exit code.
ExitOutcome(i) == IF procs[i].timedOut THEN "null" ELSE procs[i].code

DeclaredSet ==
    UNION { {taskPlan.steps[i].outputs[j] : j \in 1..Len(taskPlan.steps[i].outputs)} :
            i \in PlanSteps }
DeclaringStep(path) ==
    CHOOSE i \in PlanSteps :
        \E j \in 1..Len(taskPlan.steps[i].outputs) : taskPlan.steps[i].outputs[j] = path

-----------------------------------------------------------------------------
(* Claims about the errors of MediaAgent.runTask *)

PlanFailed == phases["plan"].status = "failed"

\* C17: plan failure.  When planner.plan rejects, phase plan is failed,
\* the executor is never called, phases execute and summarize stay
\* pending, and runTask throws MediaAgentTaskError("Plan phase failed")
\* around the planner's error, with the rawPlan, debug and responseText
\* attached to that error in its context, null for what is not attached.
C17_PlanFailure ==
    PlanFailed =>
        /\ apc = "threw"
        /\ epc = "idle"
        /\ phases["execute"].status = "pending"
        /\ phases["summarize"].status = "pending"
        /\ outcome.kind = "MediaAgentTaskError"
        /\ outcome.message = "Plan phase failed"
        /\ outcome.cause \in PlannerErrors
        /\ outcome.phases = phases
        /\ outcome.context.rawPlan =
              (IF outcome.cause.rawPlan = "undefined" THEN "null" ELSE outcome.cause.rawPlan)
        /\ outcome.context.debug =
              (IF outcome.cause.debug = "undefined" THEN "null" ELSE outcome.cause.debug)
        /\ outcome.context.responseText =
              (IF outcome.cause.responseText = "undefined" THEN "null"
               ELSE outcome.cause.responseText)

C17_Witness ==
    /\ PlanFailed
    /\ apc = "threw"
    /\ outcome.context.rawPlan = "normalized"
    /\ outcome.context.debug = "null"
    /\ outcome.context.responseText = "responseText"

\* runTask threw although execute returned: the result shows a failure.
FailedOnResult == apc = "threw" /\ epc = "returned"

\* C18: execution failure carries the result.  The error runTask throws
\* for a result with a failed or timed-out step is
\* MediaAgentTaskError("Execution phase failed") with the result, the plan
\* and the rawPlan in its context.
C18_FailureCarriesResult ==
    FailedOnResult =>
        /\ outcome.kind = "MediaAgentTaskError"
        /\ outcome.message = "Execution phase failed"
        /\ outcome.context.result = "result"
        /\ outcome.context.plan = "plan"
        /\ outcome.context.rawPlan = "rawPlan"

\* The first step of the result that failed or timed out.
FirstFailingStep ==
    result.steps[Min({i \in 1..Len(result.steps) :
                        /\ result.steps[i].status = "executed"
                        /\ \/ result.steps[i].timedOut
                           \/ result.steps[i].exitCode \in ExitCodes \ {"0"}})]

\* C19: execution failure is described by its first failing step.  The
\* error of phase execute in the phases of the thrown error, and the cause
\* of the thrown error, is the CommandExecutionError whose message states
\* that the run timed out, or names the command and the exit code of the
\* first failing step.
C19_FailureNamesFirstStep ==
    FailedOnResult =>
        /\ outcome.cause.name = "CommandExecutionError"
        /\ outcome.phases["execute"].error.name = "CommandExecutionError"
        /\ outcome.phases["execute"].error.message = outcome.cause.message
        /\ IF FirstFailingStep.timedOut
           THEN outcome.cause.message.text \in {"Command execution timed out.",
                                                "Command timed out."}
           ELSE /\ outcome.cause.message.command = FirstFailingStep.command
                /\ outcome.cause.message.code = FirstFailingStep.exitCode

-----------------------------------------------------------------------------
(* Phase status transitions *)

\* Consecutive assignments a, b to a phase's status that keep the order
\* pending, in_progress, then success or failed, and leave a finished
\* phase as it is.
StatusStep(a, b) ==
    \/ a = "pending" /\ b = "in_progress"
    \/ a = "in_progress" /\ b \in {"success", "failed"}
    \/ a \in {"success", "failed"} /\ b = a

\* C21: phase status is monotonic.  Within one runTask every phase's status
\* only moves pending -> in_progress -> success or failed, and a phase
\* that is success or failed never changes status again in that run.
C21_StatusMonotonic ==
    \A id \in PhaseIds :
        /\ phases[id].status = phases[id].history[Len(phases[id].history)]
        /\ phases[id].history[1] = "pending"
        /\ \A k \in 1..(Len(phases[id].history) - 1) :
              StatusStep(phases[id].history[k], phases[id].history[k + 1])

\* Phase execute was failed twice (by the try block and again by the catch
\* block that caught its error) and the run went through all of plan.
C21_Witness ==
    /\ apc = "threw"
    /\ phases["plan"].history = <<"pending", "in_progress", "success">>
    /\ phases["execute"].history = <<"pending", "in_progress", "failed", "failed">>
    /\ phases["summarize"].history = <<"pending">>

-----------------------------------------------------------------------------
(* Exit codes, settlement and timers of the child processes *)

\* C27: success requires exit code 0.  runTask returns normally only if
\* every executed step of the result has exitCode 0 and timedOut false; a
\* step whose exit code is null without a timeout (the process was ended
\* by a signal) does not count as success.
C27_SuccessRequiresExitZero ==
    apc = "returned" =>
        \A i \in ExecutedSteps :
            /\ result.steps[i].exitCode = "0"
            /\ ~result.steps[i].timedOut

\* The promise of step i has been settled.
Settled(i) == procs[i].promise \in {"resolved", "rejected"}

C29_TimedOutMeansKilled ==
    \A i \in 1..MaxPlanSteps :
        procs[i].promise = "resolved" =>
            /\ procs[i].value.timedOut => procs[i].signalled
            /\ ~procs[i].signalled =>
                  procs[i].value = [exitCode |-> procs[i].code, timedOut |-> FALSE]

-----------------------------------------------------------------------------
(* Precedence of validation errors *)

\* The first defect of an output entry, "" when it has none.
OutputDefect(o) ==
    IF ~o.isObj THEN "InvalidOutput"
    ELSE IF ~o.pathIsStr \/ IsEmptyString(Trim(o)) THEN "OutputPathMissing"
    ELSE IF ~ValidOutput(o) THEN "PathEscapes"
    ELSE ""

\* The first defect of a raw step: step-is-object, command, arguments, then
\* its outputs in index order; "" when it has none.
StepDefect(st) ==
    IF ~st.isObj THEN "InvalidStep"
    ELSE IF ~st.cmdIsStr \/ st.command \notin listCommandIds(definitions)
    THEN "UnknownCommand"
    ELSE IF ~st.args.isArray
            \/ \E k \in 1..Len(st.args.elems) : st.args.elems[k].type # "string"
    THEN "InvalidArguments"
    ELSE LET bad == IF st.outputsIsArray
                    THEN {k \in 1..Len(st.outputs) : OutputDefect(st.outputs[k]) # ""}
                    ELSE {}
         IN IF bad = {} THEN "" ELSE OutputDefect(st.outputs[Min(bad)])

\* The first failing check of the call: the error and the step it is in
\* (0 for the checks on the plan and the directory), error "" when every
\* check passes.
FirstDefect ==
    IF ~rawPlan0.isObj THEN [error |-> "InvalidPlan", index |-> 0]
    ELSE IF ~ValidDir THEN [error |-> "NoOutputDir", index |-> 0]
    ELSE IF StepsMissingOrEmpty THEN [error |-> "StepsMissing", index |-> 0]
    ELSE LET bad == {i \in 1..Len(rawPlan0.steps) : StepDefect(rawPlan0.steps[i]) # ""}
         IN IF bad = {} THEN [error |-> "", index |-> 0]
            ELSE [error |-> StepDefect(rawPlan0.steps[Min(bad)]), index |-> Min(bad)]

\* C25: validation error precedence.  validate throws exactly when some
\* check fails, with the error of the first failing check in the order
\* plan-is-object, outputDir non-empty, steps non-empty, then the steps by
\* index and within a step step-is-object, command, arguments, outputs by
\* index; the error of a step is that of the lowest-index offending step
\* and its message names that step.
C25_ErrorPrecedence ==
    ValidateDone =>
        /\ vpc = "threw" <=> FirstDefect.error # ""
        /\ vpc = "threw" =>
              /\ vError = FirstDefect.error
              /\ vIndex = FirstDefect.index
              /\ vIndex > 0 => MessageNamesStep(vError)

-----------------------------------------------------------------------------
(* Arguments of the parsed response *)

\* plan has settled for a response that was parsed.
PlanSettled == plannerOut.kind \in {"returned", "threw"} /\ parsed.isJson

\* The steps of the parsed response whose arguments member is not an array
\* of strings: missing, a number or a string (no array), or an array with
\* an element that is no string.
ParsedBadArguments ==
    IF parsed.isObj /\ parsed.stepsIsArray
    THEN {i \in 1..Len(parsed.steps) :
             \/ ~parsed.steps[i].isObj
             \/ ~IsArrayOfStrings(parsed.steps[i].args)}
    ELSE {}

\* C26: the planner does not repair arguments.  For every parsed response
\* in which some step's arguments is not an array of strings, plan rejects
\* and returns no validated plan.
C26_NoSilentRepair ==
    PlanSettled /\ ParsedBadArguments # {} => plannerOut.kind = "threw"

-----------------------------------------------------------------------------
(* The responses of the server and the complaints it records *)

\* handleTaskRequest has answered a request whose runTask threw a
\* MediaAgentTaskError.
AnsweredAgentError == task.pc = "done" /\ task.outcome.kind = "MediaAgentTaskError"

Appended ==
    {r \in 1..MaxRevisions : revs[r].pc = "done" /\ revs[r].status # ""}

\* C30: no complaint entry is lost.  When all the concurrent calls of
\* handleRevisionRequest for one base session have completed, the stored
\* record of the base session has one complaint entry for each of them.
C30_NoLostComplaint ==
    (\A r \in 1..MaxRevisions : revs[r].pc = "done") =>
        /\ Len(store[0].complaints) = Cardinality(Appended)
        /\ \A r \in Appended :
              \E k \in 1..Len(store[0].complaints) :
                  store[0].complaints[k].followUpSessionId = r

-----------------------------------------------------------------------------
(* Isolation of the value getPhases() returns *)

\* C22: snapshot isolation.  Whatever a caller assigns to in a value that
\* getPhases() returned (the array, a phase object, its meta, its logs
\* array, a log entry, its error object), a later getPhases() returns what
\* the tracker's own methods have built.
C22_SnapshotIsolation == Snapshot = pristine

-----------------------------------------------------------------------------
(* Isolation of concurrent runs *)

\* The same call run alone: a new tracker, the planner's answer, then the
\* executor's answer; the phases of its tracker and what it returns or
\* throws, at the place pc of the call.
RunAlone(pc, planAnswer, executeAnswer) ==
    LET started == TrackerStart(NewTaskPhaseTracker, "plan")
        planned == AfterPlan(started, planAnswer)
    IN IF pc = "awaitPlan" THEN [phases |-> started, outcome |-> NoOutcome]
       ELSE IF pc = "awaitExecute" \/ planAnswer.rejected
       THEN [phases |-> planned.phases, outcome |-> planned.outcome]
       ELSE LET a == AfterExecute(planned.phases, executeAnswer.rejected,
                                  executeAnswer.error, executeAnswer.result)
            IN [phases |-> a.phases, outcome |-> a.outcome]

\* C23: isolation of concurrent runs.  However the runTask calls in flight
\* on one agent interleave at their awaits, the phases of each call's
\* tracker and what the call returns or throws are those of the same call
\* run alone with the same answers of planner and executor, and no two
\* calls have the same tracker.
C23_RunsIsolated ==
    \A r \in 1..MaxRuns :
        runs[r].pc # "idle" =>
            LET alone == RunAlone(runs[r].pc, runs[r].planAnswer, runs[r].executeAnswer) IN
            /\ trackers[runs[r].tracker] = alone.phases
            /\ runs[r].outcome = alone.outcome
            /\ runs[r].pc \in {"returned", "threw"} =>
                  runs[r].outcome.phases = alone.phases
            /\ \A q \in 1..MaxRuns :
                  q # r /\ runs[q].pc # "idle" => runs[q].tracker # runs[r].tracker

\* Two calls in flight together: the later one has thrown in its plan
\* phase while the earlier one, called first, still awaits its executor.
C23_Witness ==
    \E r \in 1..MaxRuns : \E q \in 1..MaxRuns :
        /\ runs[r].pc = "awaitExecute"
        /\ runs[r].tracker = 1
        /\ runs[q].pc = "threw"
        /\ runs[q].tracker = 2
        /\ runs[q].planAnswer.rejected
        /\ trackers[1]["execute"].status = "in_progress"
        /\ trackers[2]["plan"].status = "failed"

=============================================================================
